---------------------------- MODULE Spec2Model ----------------------------
(***************************************************************************)
(* Historical financial metrics and balance-sheet reconciliation engine.   *)
(*                                                                         *)
(* The model covers                                                        *)
(*   - BalanceSheetFixer (balance_sheet_fixer.py): the reconciliation pass *)
(*     run_complete_fix over the balance_sheets and price_history tables,  *)
(*     one action per step of the pass, inside one database transaction;   *)
(*   - HistoricalMetricsCalculator (historical_metrics_calculator.py): the *)
(*     as-of resolvers get_closest_* and the safe_divide primitive, the    *)
(*     metric record of calculate_metrics_for_period, the upsert           *)
(*     store_historical_metrics and the batch                              *)
(*     populate_all_historical_metrics;                                    *)
(*   - HistoricalMetricsPopulator (populate_historical_metrics.py): the    *)
(*     query row with its LAG columns, calculate_financial_metrics and the *)
(*     upsert insert_historical_metrics;                                   *)
(*   - YFinanceNSEDownloader (yfinance_nse_downloader.py): the writers of  *)
(*     the store, store_balance_sheets, store_company_metrics and          *)
(*     store_price_history, as download_and_store_company_data calls them; *)
(*   - the reconciliation pass and the calculator as two programs on one   *)
(*     store.                                                              *)
(*                                                                         *)
(* A nullable column is modelled as a sequence: <<>> is SQL NULL / Python  *)
(* None, <<v>> is the value v.  Amounts are integers (the ingestion code   *)
(* stores every balance-sheet amount through safe_convert_to_int).         *)
(***************************************************************************)
EXTENDS Integers, Sequences, FiniteSets, TLC

VARIABLES
    balance_sheets,        \* table balance_sheets: id -> row (working state of the transaction)
    income_statements,     \* table income_statements: id -> row
    cash_flow_statements,  \* table cash_flow_statements: id -> row
    price_history,         \* table price_history: id -> row
    committed,             \* <<balance_sheets, price_history>> as of the last commit (what rollback restores)
    pc,                    \* position inside run_complete_fix, "idle" outside of it
    runs,                  \* number of run_complete_fix invocations started
    commits,               \* number of invocations that reached conn.commit()
    outcome,               \* how the last finished invocation ended: "none", "committed", "raised"
    cleaned,               \* local of run_complete_fix: return value of clean_invalid_data
    fixed_balance,         \* local of run_complete_fix: return value of fix_balance_sheet_equation
    fixed_calculations,    \* local of run_complete_fix: return value of fix_missing_calculated_fields
    call,                  \* arguments of the last pure call (resolver, safe_divide, calculator)
    result,                \* value returned by the last pure call
    companies,             \* table companies: the ids, in the order of ORDER BY symbol
    company_metrics,       \* table company_metrics: company_id -> shares_outstanding
    historical_company_metrics,  \* the metrics sink: key -> row (working state of the transaction)
    sink_committed,        \* historical_company_metrics as of the last commit
    clock,                 \* CURRENT_TIMESTAMP of the sink's transactions
    batch_pc,              \* position inside populate_all_historical_metrics
    batch_idx,             \* number of companies the batch loop has finished with
    attempted              \* <<company id, how the call ended>> of each call of the populate method by the batch loop

vars == <<balance_sheets, income_statements, cash_flow_statements, price_history,
          committed, pc, runs, commits, outcome, cleaned, fixed_balance,
          fixed_calculations, call, result, companies, company_metrics,
          historical_company_metrics, sink_committed, clock, batch_pc, batch_idx,
          attempted>>

(***************************************************************************)
(* Nullable values                                                         *)
(***************************************************************************)
NULL == <<>>

Some(v) == <<v>>

IsNull(x) == x = NULL

Val(x) == x[1]

\* Python truthiness of a nullable number: None and 0 are both false.
Truthy(x) == ~IsNull(x) /\ Val(x) # 0

Abs(n) == IF n < 0 THEN -n ELSE n

\* COALESCE(x, 0)
Coalesce0(x) == IF IsNull(x) THEN 0 ELSE Val(x)

(***************************************************************************)
(* Program constants                                                       *)
(***************************************************************************)
Tolerance == 1000000

MinorTolerance == 100000

CalcTolerance == 100000

UnreasonableFactor == 2

(***************************************************************************)
(* Bounds of the model                                                     *)
(***************************************************************************)
MaxRuns == 2

\* Amounts a core column (total_assets, total_liabilities, stockholders_equity)
\* may hold after ingestion.  They hit every threshold of the pass: the sign,
\* zero, 2 x assets, -0.5 x assets (1,500,000 against 1,000,000), the
\* imbalance tolerances 100,000 and 1,000,000 exactly and on either side.
Amounts == {NULL, Some(-2000000), Some(0), Some(100), Some(400000), Some(500000),
            Some(600000), Some(1000000), Some(1500000), Some(3000000)}

\* Amounts of the secondary columns (current assets, debt, minority interest).
SmallAmounts == {NULL, Some(0), Some(300000), Some(500000)}

\* Amounts of the stored derived columns (working_capital, total_debt): the
\* secondary amounts and one that lies 100,000 off a difference or sum of them
StoredDerived == SmallAmounts \cup {Some(400000)}

BalanceIds == {1, 2}


(***************************************************************************)
(* Rows of balance_sheets                                                  *)
(***************************************************************************)
\* The row store_balance_sheets inserts: the quality columns are not in its
\* column list, so they take their defaults (score 100, flags NULL).
BalanceRow(id, key, ta, tl, se, ca, cl, wc, std, ltd, td, mi, cse) ==
    [id |-> id,
     company_id |-> key[1], period_ending |-> key[2], period_type |-> key[3],
     total_assets |-> ta, total_liabilities |-> tl, stockholders_equity |-> se,
     current_assets |-> ca, current_liabilities |-> cl, working_capital |-> wc,
     short_term_debt |-> std, long_term_debt |-> ltd, total_debt |-> td,
     minority_interest |-> mi, common_stock_equity |-> cse,
     common_stock |-> NULL,
     data_quality_score |-> 100, quality_flags |-> NULL,
     updated_at |-> 0]

\* ABS(total_assets - (total_liabilities + stockholders_equity)), all three present
Imbalance(r) ==
    Abs(Val(r.total_assets) - (Val(r.total_liabilities) + Val(r.stockholders_equity)))

CorePresent(r) ==
    /\ ~IsNull(r.total_assets)
    /\ ~IsNull(r.total_liabilities)
    /\ ~IsNull(r.stockholders_equity)

(***************************************************************************)
(* clean_invalid_data                                                      *)
(***************************************************************************)
\* Mutant of NegativeAssets: the comparison is total_assets <= 0
NegativeAssetsOrZero(r) == ~IsNull(r.total_assets) /\ Val(r.total_assets) <= 0

\* DELETE FROM balance_sheets WHERE total_assets < 0
NegativeAssets(r) == ~IsNull(r.total_assets) /\ Val(r.total_assets) < 0

\* Mutant of UnreasonableEquity: the comparison takes equal for smaller
UnreasonableEquityAbove(r) ==
    /\ ~IsNull(r.total_assets) /\ Val(r.total_assets) > 0
    /\ ~IsNull(r.stockholders_equity)
    /\ Val(r.stockholders_equity) > Val(r.total_assets) * UnreasonableFactor + Val(r.total_assets)

\* WHERE total_assets > 0 AND stockholders_equity > total_assets * 2
UnreasonableEquity(r) ==
    /\ ~IsNull(r.total_assets) /\ Val(r.total_assets) > 0
    /\ ~IsNull(r.stockholders_equity)
    /\ Val(r.stockholders_equity) > Val(r.total_assets) * UnreasonableFactor

\* WHERE total_assets > 0 AND total_liabilities > total_assets * 2
UnreasonableLiabilities(r) ==
    /\ ~IsNull(r.total_assets) /\ Val(r.total_assets) > 0
    /\ ~IsNull(r.total_liabilities)
    /\ Val(r.total_liabilities) > Val(r.total_assets) * UnreasonableFactor

\* Mutant of ResetLiabilities: the reset clears total_assets as well
ResetLiabilitiesAndAssets(r, now) ==
    [r EXCEPT !.total_liabilities = NULL, !.total_assets = NULL, !.updated_at = now]

ResetEquity(r, now) == [r EXCEPT !.stockholders_equity = NULL, !.updated_at = now]

ResetLiabilities(r, now) == [r EXCEPT !.total_liabilities = NULL, !.updated_at = now]

\* The three statements of clean_invalid_data in order; the table after each.
CleanAfterDelete(t) ==
    [id \in {i \in DOMAIN t : ~NegativeAssets(t[i])} |-> t[id]]

CleanAfterEquity(t, now) ==
    LET t1 == CleanAfterDelete(t)
    IN  [id \in DOMAIN t1 |->
            IF UnreasonableEquity(t1[id]) THEN ResetEquity(t1[id], now) ELSE t1[id]]

clean_invalid_data(t, now) ==
    LET t2 == CleanAfterEquity(t, now)
    IN  [id \in DOMAIN t2 |->
            IF UnreasonableLiabilities(t2[id]) THEN ResetLiabilities(t2[id], now)
            ELSE t2[id]]

\* cleaned_count: the sum of the three rowcounts
cleaned_count(t, now) ==
    LET t1 == CleanAfterDelete(t)
        t2 == CleanAfterEquity(t, now)
    IN  Cardinality({id \in DOMAIN t : NegativeAssets(t[id])})
          + Cardinality({id \in DOMAIN t1 : UnreasonableEquity(t1[id])})
          + Cardinality({id \in DOMAIN t2 : UnreasonableLiabilities(t2[id])})

(***************************************************************************)
(* fix_balance_sheet_equation                                              *)
(***************************************************************************)
\* Mutant of Strategy1Selected: the minor threshold in place of the tolerance
Strategy1SelectedMinor(r) ==
    /\ ~IsNull(r.total_assets)
    /\ ~IsNull(r.total_liabilities)
    /\ \/ IsNull(r.stockholders_equity)
       \/ Imbalance(r) > MinorTolerance

\* Strategy 1, the SELECT's WHERE clause
Strategy1Selected(r) ==
    /\ ~IsNull(r.total_assets)
    /\ ~IsNull(r.total_liabilities)
    /\ \/ IsNull(r.stockholders_equity)
       \/ Imbalance(r) > Tolerance

\* Mutant of EquityReasonable: the bound is the whole of assets, not half
EquityReasonableFullAssets(assets, correct_equity) == correct_equity > -assets

\* correct_equity > -assets * 0.5
EquityReasonable(assets, correct_equity) == 2 * correct_equity > -assets

\* Strategy 1, the loop body: "if assets and liabilities" is Python truthiness
Strategy1Updates(r) ==
    /\ Strategy1Selected(r)
    /\ Truthy(r.total_assets) /\ Truthy(r.total_liabilities)
    /\ EquityReasonable(Val(r.total_assets),
                        Val(r.total_assets) - Val(r.total_liabilities))

Strategy1Write(r, now) ==
    [r EXCEPT !.stockholders_equity =
                  Some(Val(r.total_assets) - Val(r.total_liabilities)),
              !.updated_at = now]

\* Strategy 2, the SELECT's WHERE clause
Strategy2Selected(r) ==
    /\ ~IsNull(r.total_assets)
    /\ ~IsNull(r.stockholders_equity)
    /\ IsNull(r.total_liabilities)

\* correct_liabilities >= 0 and correct_liabilities <= assets
LiabilitiesReasonable(assets, correct_liabilities) ==
    correct_liabilities >= 0 /\ correct_liabilities <= assets

\* Strategy 2, the loop body: "if assets and equity" is Python truthiness
Strategy2Updates(r) ==
    /\ Strategy2Selected(r)
    /\ Truthy(r.total_assets) /\ Truthy(r.stockholders_equity)
    /\ LiabilitiesReasonable(Val(r.total_assets),
                             Val(r.total_assets) - Val(r.stockholders_equity))

Strategy2Write(r, now) ==
    [r EXCEPT !.total_liabilities =
                  Some(Val(r.total_assets) - Val(r.stockholders_equity)),
              !.updated_at = now]

\* The table after the first loop; the second SELECT reads it.
AfterStrategy1(t, now) ==
    [id \in DOMAIN t |->
        IF Strategy1Updates(t[id]) THEN Strategy1Write(t[id], now) ELSE t[id]]

fix_balance_sheet_equation(t, now) ==
    LET t1 == AfterStrategy1(t, now)
    IN  [id \in DOMAIN t1 |->
            IF Strategy2Updates(t1[id]) THEN Strategy2Write(t1[id], now) ELSE t1[id]]

\* fixed_count of fix_balance_sheet_equation
fixed_count(t, now) ==
    LET t1 == AfterStrategy1(t, now)
    IN  Cardinality({id \in DOMAIN t : Strategy1Updates(t[id])})
          + Cardinality({id \in DOMAIN t1 : Strategy2Updates(t1[id])})

(***************************************************************************)
(* fix_missing_calculated_fields                                           *)
(***************************************************************************)
WorkingCapitalStale(r) ==
    /\ ~IsNull(r.current_assets)
    /\ ~IsNull(r.current_liabilities)
    /\ \/ IsNull(r.working_capital)
       \/ Abs(Val(r.working_capital)
              - (Val(r.current_assets) - Val(r.current_liabilities))) > CalcTolerance

SetWorkingCapital(r, now) ==
    [r EXCEPT !.working_capital =
                  Some(Val(r.current_assets) - Val(r.current_liabilities)),
              !.updated_at = now]

\* Mutant of TotalDebtStale: both components are required
TotalDebtStaleBoth(r) ==
    /\ ~IsNull(r.short_term_debt) /\ ~IsNull(r.long_term_debt)
    /\ \/ IsNull(r.total_debt)
       \/ Abs(Val(r.total_debt)
              - (Coalesce0(r.short_term_debt) + Coalesce0(r.long_term_debt))) > CalcTolerance

\* WHERE (short_term_debt IS NOT NULL OR long_term_debt IS NOT NULL) AND (...)
TotalDebtStale(r) ==
    /\ ~IsNull(r.short_term_debt) \/ ~IsNull(r.long_term_debt)
    /\ \/ IsNull(r.total_debt)
       \/ Abs(Val(r.total_debt)
              - (Coalesce0(r.short_term_debt) + Coalesce0(r.long_term_debt))) > CalcTolerance

SetTotalDebt(r, now) ==
    [r EXCEPT !.total_debt =
                  Some(Coalesce0(r.short_term_debt) + Coalesce0(r.long_term_debt)),
              !.updated_at = now]

CommonEquityStale(r) ==
    /\ ~IsNull(r.stockholders_equity)
    /\ \/ IsNull(r.common_stock_equity)
       \/ Abs(Val(r.common_stock_equity)
              - (Val(r.stockholders_equity) - Coalesce0(r.minority_interest))) > CalcTolerance

SetCommonEquity(r, now) ==
    [r EXCEPT !.common_stock_equity =
                  Some(Val(r.stockholders_equity) - Coalesce0(r.minority_interest)),
              !.updated_at = now]

CalcAfterWorkingCapital(t, now) ==
    [id \in DOMAIN t |->
        IF WorkingCapitalStale(t[id]) THEN SetWorkingCapital(t[id], now) ELSE t[id]]

CalcAfterTotalDebt(t, now) ==
    LET t1 == CalcAfterWorkingCapital(t, now)
    IN  [id \in DOMAIN t1 |->
            IF TotalDebtStale(t1[id]) THEN SetTotalDebt(t1[id], now) ELSE t1[id]]

fix_missing_calculated_fields(t, now) ==
    LET t2 == CalcAfterTotalDebt(t, now)
    IN  [id \in DOMAIN t2 |->
            IF CommonEquityStale(t2[id]) THEN SetCommonEquity(t2[id], now) ELSE t2[id]]

\* working_capital_fixed + total_debt_fixed + common_equity_fixed
calculated_count(t, now) ==
    LET t1 == CalcAfterWorkingCapital(t, now)
        t2 == CalcAfterTotalDebt(t, now)
    IN  Cardinality({id \in DOMAIN t : WorkingCapitalStale(t[id])})
          + Cardinality({id \in DOMAIN t1 : TotalDebtStale(t1[id])})
          + Cardinality({id \in DOMAIN t2 : CommonEquityStale(t2[id])})

(***************************************************************************)
(* validate_data_consistency (price_history)                               *)
(***************************************************************************)
PriceRow(id, company, day, o, h, l, c) ==
    [id |-> id, company_id |-> company, date |-> day,
     open_price |-> o, high_price |-> h, low_price |-> l, close_price |-> c,
     updated_at |-> 0]

HighBelowLow(p) ==
    /\ ~IsNull(p.high_price) /\ ~IsNull(p.low_price)
    /\ Val(p.high_price) < Val(p.low_price)

SetHighToLow(p, now) == [p EXCEPT !.high_price = p.low_price, !.updated_at = now]

IsNegative(x) == ~IsNull(x) /\ Val(x) < 0

NegativePrice(p) ==
    \/ IsNegative(p.open_price) \/ IsNegative(p.high_price)
    \/ IsNegative(p.low_price) \/ IsNegative(p.close_price)

ClearPrices(p, now) ==
    [p EXCEPT !.open_price = NULL, !.high_price = NULL, !.low_price = NULL,
              !.close_price = NULL, !.updated_at = now]

ValidateAfterHighLow(t, now) ==
    [id \in DOMAIN t |->
        IF HighBelowLow(t[id]) THEN SetHighToLow(t[id], now) ELSE t[id]]

validate_data_consistency(t, now) ==
    LET t1 == ValidateAfterHighLow(t, now)
    IN  [id \in DOMAIN t1 |->
            IF NegativePrice(t1[id]) THEN ClearPrices(t1[id], now) ELSE t1[id]]

(***************************************************************************)
(* add_data_quality_flags                                                  *)
(***************************************************************************)
\* Mutant of QualityScore: the minor threshold is inclusive
QualityScoreInclusive(r) ==
    IF IsNull(r.total_assets) THEN 0
    ELSE IF IsNull(r.total_liabilities) THEN 30
    ELSE IF IsNull(r.stockholders_equity) THEN 30
    ELSE IF Imbalance(r) > Tolerance THEN 50
    ELSE IF Imbalance(r) >= MinorTolerance THEN 80
    ELSE 100

\* SET data_quality_score = CASE WHEN ... END: the first WHEN that is true
QualityScore(r) ==
    IF IsNull(r.total_assets) THEN 0
    ELSE IF IsNull(r.total_liabilities) THEN 30
    ELSE IF IsNull(r.stockholders_equity) THEN 30
    ELSE IF Imbalance(r) > Tolerance THEN 50
    ELSE IF Imbalance(r) > MinorTolerance THEN 80
    ELSE 100

\* Mutant of QualityFlags: the imbalance is compared signed, without ABS
QualityFlagsSigned(r) ==
    LET signed == Val(r.total_assets)
                    - (Val(r.total_liabilities) + Val(r.stockholders_equity))
    IN  IF IsNull(r.total_assets) THEN <<"missing_assets">>
        ELSE IF IsNull(r.total_liabilities) THEN <<"missing_liabilities">>
        ELSE IF IsNull(r.stockholders_equity) THEN <<"missing_equity">>
        ELSE IF signed > Tolerance THEN <<"major_imbalance">>
        ELSE IF signed > MinorTolerance THEN <<"minor_imbalance">>
        ELSE <<"clean">>

\* SET quality_flags = CASE WHEN ... END; ARRAY['x'] is the sequence <<"x">>
QualityFlags(r) ==
    IF IsNull(r.total_assets) THEN <<"missing_assets">>
    ELSE IF IsNull(r.total_liabilities) THEN <<"missing_liabilities">>
    ELSE IF IsNull(r.stockholders_equity) THEN <<"missing_equity">>
    ELSE IF Imbalance(r) > Tolerance THEN <<"major_imbalance">>
    ELSE IF Imbalance(r) > MinorTolerance THEN <<"minor_imbalance">>
    ELSE <<"clean">>

\* The UPDATE has no WHERE clause: every row is rewritten.
add_data_quality_flags(t, now) ==
    [id \in DOMAIN t |->
        [t[id] EXCEPT !.data_quality_score = QualityScore(t[id]),
                      !.quality_flags = QualityFlags(t[id]),
                      !.updated_at = now]]

(***************************************************************************)
(* The transaction of a connection                                         *)
(***************************************************************************)
\* Mutant of rollback: the rollback empties the table
rollback_to_empty(working, last_commit) == << >>

\* Mutant of rollback: the writes of the open transaction stay
rollback_keeps_writes(working, last_commit) == working

\* self.conn.rollback(): the working state returns to the last commit
rollback(working, last_commit) == last_commit

(***************************************************************************)
(* generate_data_quality_report                                            *)
(***************************************************************************)
\* The report divides by COUNT(*) of balance_sheets and of price_history:
\* with either table empty Python raises ZeroDivisionError.
ReportRaises(bs, ph) == DOMAIN bs = {} \/ DOMAIN ph = {}

(***************************************************************************)
(* run_complete_fix: the steps in the order the method calls them          *)
(***************************************************************************)
\* Mutant of run_complete_fix_steps: the repair runs before the cleaning
run_complete_fix_steps_repair_first ==
    <<"fix_equation", "clean", "fix_calculated", "validate", "flags", "report">>

run_complete_fix_steps ==
    <<"clean", "fix_equation", "fix_calculated", "validate", "flags", "report">>

StepIndex(step) ==
    CHOOSE i \in 1..Len(run_complete_fix_steps) : run_complete_fix_steps[i] = step

\* The step the method reaches when `step` returns
NextStep(step) == run_complete_fix_steps[StepIndex(step) + 1]

\* CURRENT_TIMESTAMP inside the transaction of the run
Now == runs

\* The metrics sink and the batch that fills it
UnchangedSink ==
    UNCHANGED <<historical_company_metrics, sink_committed, clock, batch_pc,
                batch_idx, attempted>>

UnchangedStatements ==
    /\ UNCHANGED <<income_statements, cash_flow_statements, companies, company_metrics>>
    /\ UnchangedSink

UnchangedCalls == UNCHANGED <<call, result>>

\* No metric has been stored and no batch is running
SinkIdle ==
    /\ historical_company_metrics = << >>
    /\ sink_committed = << >>
    /\ clock = 0
    /\ batch_pc = "idle"
    /\ batch_idx = 0
    /\ attempted = << >>

\* try: issues = self.analyze_balance_sheet_issues()  (a read)
StartRun ==
    /\ pc = "idle"
    /\ runs < MaxRuns
    /\ runs' = runs + 1
    /\ pc' = run_complete_fix_steps[1]
    /\ cleaned' = 0
    /\ fixed_balance' = 0
    /\ fixed_calculations' = 0
    /\ UNCHANGED <<balance_sheets, price_history, committed, commits, outcome>>
    /\ UnchangedStatements /\ UnchangedCalls

CleanInvalidData ==
    /\ pc = "clean"
    /\ balance_sheets' = clean_invalid_data(balance_sheets, Now)
    /\ cleaned' = cleaned_count(balance_sheets, Now)
    /\ pc' = NextStep("clean")
    /\ UNCHANGED <<price_history, committed, runs, commits, outcome,
                   fixed_balance, fixed_calculations>>
    /\ UnchangedStatements /\ UnchangedCalls

FixBalanceSheetEquation ==
    /\ pc = "fix_equation"
    /\ balance_sheets' = fix_balance_sheet_equation(balance_sheets, Now)
    /\ fixed_balance' = fixed_count(balance_sheets, Now)
    /\ pc' = NextStep("fix_equation")
    /\ UNCHANGED <<price_history, committed, runs, commits, outcome,
                   cleaned, fixed_calculations>>
    /\ UnchangedStatements /\ UnchangedCalls

FixMissingCalculatedFields ==
    /\ pc = "fix_calculated"
    /\ balance_sheets' = fix_missing_calculated_fields(balance_sheets, Now)
    /\ fixed_calculations' = calculated_count(balance_sheets, Now)
    /\ pc' = NextStep("fix_calculated")
    /\ UNCHANGED <<price_history, committed, runs, commits, outcome,
                   cleaned, fixed_balance>>
    /\ UnchangedStatements /\ UnchangedCalls

ValidateDataConsistency ==
    /\ pc = "validate"
    /\ price_history' = validate_data_consistency(price_history, Now)
    /\ pc' = NextStep("validate")
    /\ UNCHANGED <<balance_sheets, committed, runs, commits, outcome,
                   cleaned, fixed_balance, fixed_calculations>>
    /\ UnchangedStatements /\ UnchangedCalls

AddDataQualityFlags ==
    /\ pc = "flags"
    /\ balance_sheets' = add_data_quality_flags(balance_sheets, Now)
    /\ pc' = NextStep("flags")
    /\ UNCHANGED <<price_history, committed, runs, commits, outcome,
                   cleaned, fixed_balance, fixed_calculations>>
    /\ UnchangedStatements /\ UnchangedCalls

\* final_score = self.generate_data_quality_report(); self.conn.commit()
ReportAndCommit ==
    /\ pc = "report"
    /\ ~ReportRaises(balance_sheets, price_history)
    /\ committed' = <<balance_sheets, price_history>>
    /\ commits' = commits + 1
    /\ outcome' = "committed"
    /\ pc' = "idle"
    /\ UNCHANGED <<balance_sheets, price_history, runs,
                   cleaned, fixed_balance, fixed_calculations>>
    /\ UnchangedStatements /\ UnchangedCalls

\* except Exception: self.conn.rollback(); raise
ReportRaisesAndRollback ==
    /\ pc = "report"
    /\ ReportRaises(balance_sheets, price_history)
    /\ balance_sheets' = rollback(balance_sheets, committed[1])
    /\ price_history' = rollback(price_history, committed[2])
    /\ outcome' = "raised"
    /\ pc' = "idle"
    /\ UNCHANGED <<committed, runs, commits,
                   cleaned, fixed_balance, fixed_calculations>>
    /\ UnchangedStatements /\ UnchangedCalls

RunCompleteFix ==
    \/ StartRun
    \/ CleanInvalidData
    \/ FixBalanceSheetEquation
    \/ FixMissingCalculatedFields
    \/ ValidateDataConsistency
    \/ AddDataQualityFlags
    \/ ReportAndCommit
    \/ ReportRaisesAndRollback

(***************************************************************************)
(* The reconciliation specification: any ingested store, then passes       *)
(***************************************************************************)
\* Identity of the balance row with a given id in the reconciliation runs
ReconKey(id) == <<1, id, "annual">>

CoreRow(id, ta, tl, se) ==
    BalanceRow(id, ReconKey(id), ta, tl, se,
               NULL, NULL, NULL, NULL, NULL, NULL, NULL, NULL)

\* Rows ingestion may have stored.  The column groups the pass reads together
\* vary together; the other groups are held at one value.
CoreRows(id) == {CoreRow(id, ta, tl, se) : ta \in Amounts, tl \in Amounts, se \in Amounts}

WorkingCapitalRows(id) ==
    {BalanceRow(id, ReconKey(id), Some(1000000), Some(600000), Some(400000),
                ca, cl, wc, NULL, NULL, NULL, NULL, Some(400000)) :
        ca \in SmallAmounts, cl \in SmallAmounts, wc \in StoredDerived}

TotalDebtRows(id) ==
    {BalanceRow(id, ReconKey(id), Some(1000000), Some(600000), Some(400000),
                NULL, NULL, NULL, std, ltd, td, NULL, Some(400000)) :
        std \in SmallAmounts, ltd \in SmallAmounts, td \in StoredDerived}

CommonEquityRows(id) ==
    {BalanceRow(id, ReconKey(id), Some(1000000), tl, se,
                NULL, NULL, NULL, NULL, NULL, NULL, mi, cse) :
        tl \in {NULL, Some(600000)},
        se \in {NULL, Some(100), Some(400000), Some(3000000)},
        mi \in SmallAmounts, cse \in SmallAmounts}

IngestedRows(id) ==
    CoreRows(id) \cup WorkingCapitalRows(id) \cup TotalDebtRows(id)
        \cup CommonEquityRows(id)

\* A few typical rows for the rest of the table
TypicalRows(id) ==
    {CoreRow(id, Some(1000000), Some(600000), NULL),
     CoreRow(id, Some(1000000), Some(600000), Some(100)),
     CoreRow(id, Some(-2000000), Some(600000), Some(400000)),
     BalanceRow(id, ReconKey(id), Some(3000000), NULL, Some(1000000),
                Some(500000), Some(300000), Some(0),
                Some(300000), NULL, NULL, Some(300000), NULL)}

PriceTables ==
    {<< >>,
     1 :> PriceRow(1, 1, 1, Some(10), Some(12), Some(9), Some(11)),
     1 :> PriceRow(1, 1, 1, Some(10), Some(8), Some(9), Some(-1))}

InitRecon ==
    /\ \E free \in BalanceIds :
         \E row \in IngestedRows(free) :
           \E rest \in [BalanceIds -> UNION {TypicalRows(i) : i \in BalanceIds}] :
             /\ \A i \in BalanceIds : rest[i].id = i
             /\ balance_sheets = [rest EXCEPT ![free] = row]
    /\ price_history \in PriceTables
    /\ committed = <<balance_sheets, price_history>>
    /\ income_statements = << >>
    /\ cash_flow_statements = << >>
    /\ pc = "idle"
    /\ runs = 0
    /\ commits = 0
    /\ outcome = "none"
    /\ cleaned = 0
    /\ fixed_balance = 0
    /\ fixed_calculations = 0
    /\ call = << >>
    /\ result = NULL
    /\ companies = << >>
    /\ company_metrics = << >>
    /\ SinkIdle

NextRecon == RunCompleteFix

SpecRecon == InitRecon /\ [][NextRecon]_vars

(***************************************************************************)
(* HistoricalMetricsCalculator: statement rows and the as-of resolvers     *)
(***************************************************************************)
MaxDate == 3

Companies == {1, 2}

PeriodTypes == {"annual", "quarterly"}

\* period_ending values of the stored statements
Dates == 1..MaxDate

\* target dates of a lookup; 0 is before every stored statement
TargetDates == 0..MaxDate

StatementIds == {1, 2, 3}

\* (company_id, period_ending, period_type): the unique key of each
\* statement table (the ON CONFLICT target of every statement insert)
StatementKeys == Companies \X Dates \X PeriodTypes

IncomeRow(id, key, revenue, gross, operating, net, eps) ==
    [id |-> id,
     company_id |-> key[1], period_ending |-> key[2], period_type |-> key[3],
     total_revenue |-> revenue, gross_profit |-> gross,
     operating_income |-> operating, net_income |-> net, diluted_eps |-> eps]

CashFlowRow(id, key, operating, free) ==
    [id |-> id,
     company_id |-> key[1], period_ending |-> key[2], period_type |-> key[3],
     operating_cash_flow |-> operating, free_cash_flow |-> free]

\* Mutant of MatchingIds: the target date itself is excluded
MatchingIdsStrict(t, company_id, target_date, period_type) ==
    {id \in DOMAIN t : /\ t[id].company_id = company_id
                       /\ t[id].period_type = period_type
                       /\ t[id].period_ending < target_date}

\* WHERE company_id = %s AND period_type = %s AND period_ending <= %s
MatchingIds(t, company_id, target_date, period_type) ==
    {id \in DOMAIN t : /\ t[id].company_id = company_id
                       /\ t[id].period_type = period_type
                       /\ t[id].period_ending <= target_date}

\* SELECT * ... ORDER BY period_ending DESC LIMIT 1; fetchone();
\* dict(result) if result else None
ClosestRow(t, company_id, target_date, period_type) ==
    LET ids == MatchingIds(t, company_id, target_date, period_type)
    IN  IF ids = {} THEN NULL
        ELSE Some(t[CHOOSE id \in ids :
                      \A other \in ids : t[other].period_ending <= t[id].period_ending])

get_closest_income_statement(company_id, target_date, period_type) ==
    ClosestRow(income_statements, company_id, target_date, period_type)

get_closest_balance_sheet(company_id, target_date, period_type) ==
    ClosestRow(balance_sheets, company_id, target_date, period_type)

get_closest_cashflow_statement(company_id, target_date, period_type) ==
    ClosestRow(cash_flow_statements, company_id, target_date, period_type)

UnchangedRun ==
    UNCHANGED <<committed, pc, runs, commits, outcome, cleaned, fixed_balance,
                fixed_calculations>>

UnchangedTables ==
    UNCHANGED <<balance_sheets, income_statements, cash_flow_statements, price_history,
                companies, company_metrics>>

\* One lookup per behaviour: a lookup changes no table, so a later lookup
\* would start from the tables the first one saw.
GetClosestIncomeStatement ==
    /\ call = << >>
    /\ \E c \in Companies, d \in TargetDates, p \in PeriodTypes :
         /\ call' = <<"get_closest_income_statement", c, d, p>>
         /\ result' = get_closest_income_statement(c, d, p)
    /\ UnchangedTables /\ UnchangedRun /\ UnchangedSink

GetClosestBalanceSheet ==
    /\ call = << >>
    /\ \E c \in Companies, d \in TargetDates, p \in PeriodTypes :
         /\ call' = <<"get_closest_balance_sheet", c, d, p>>
         /\ result' = get_closest_balance_sheet(c, d, p)
    /\ UnchangedTables /\ UnchangedRun /\ UnchangedSink

GetClosestCashflowStatement ==
    /\ call = << >>
    /\ \E c \in Companies, d \in TargetDates, p \in PeriodTypes :
         /\ call' = <<"get_closest_cashflow_statement", c, d, p>>
         /\ result' = get_closest_cashflow_statement(c, d, p)
    /\ UnchangedTables /\ UnchangedRun /\ UnchangedSink

(***************************************************************************)
(* The resolver specification: stored statements, then lookups             *)
(***************************************************************************)
\* Rows with the given keys and no amounts, one per id
IncomeRowsOf(keys) ==
    [id \in DOMAIN keys |-> IncomeRow(id, keys[id], NULL, NULL, NULL, NULL, NULL)]

BalanceRowsOf(keys) ==
    [id \in DOMAIN keys |->
        BalanceRow(id, keys[id], NULL, NULL, NULL, NULL, NULL, NULL,
                   NULL, NULL, NULL, NULL, NULL)]

CashFlowRowsOf(keys) ==
    [id \in DOMAIN keys |-> CashFlowRow(id, keys[id], NULL, NULL)]

\* Every assignment of distinct keys to the rows of one table
KeyLayouts ==
    {keys \in [StatementIds -> StatementKeys] :
        \A i, j \in StatementIds : i # j => keys[i] # keys[j]}

\* The layout of the tables that are not varied
TypicalIncomeKeys == <<<<1, 1, "annual">>, <<1, 2, "quarterly">>>>

TypicalBalanceKeys == <<<<1, 2, "annual">>, <<2, 1, "annual">>>>

TypicalCashFlowKeys == <<<<2, 2, "quarterly">>, <<1, 1, "quarterly">>>>

InitResolve ==
    /\ \E keys \in KeyLayouts :
         \/ /\ income_statements = IncomeRowsOf(keys)
            /\ balance_sheets = BalanceRowsOf(TypicalBalanceKeys)
            /\ cash_flow_statements = CashFlowRowsOf(TypicalCashFlowKeys)
         \/ /\ income_statements = IncomeRowsOf(TypicalIncomeKeys)
            /\ balance_sheets = BalanceRowsOf(keys)
            /\ cash_flow_statements = CashFlowRowsOf(TypicalCashFlowKeys)
         \/ /\ income_statements = IncomeRowsOf(TypicalIncomeKeys)
            /\ balance_sheets = BalanceRowsOf(TypicalBalanceKeys)
            /\ cash_flow_statements = CashFlowRowsOf(keys)
    /\ price_history = << >>
    /\ committed = <<balance_sheets, price_history>>
    /\ pc = "idle"
    /\ runs = 0
    /\ commits = 0
    /\ outcome = "none"
    /\ cleaned = 0
    /\ fixed_balance = 0
    /\ fixed_calculations = 0
    /\ call = << >>
    /\ result = NULL
    /\ companies = << >>
    /\ company_metrics = << >>
    /\ SinkIdle

NextResolve ==
    \/ GetClosestIncomeStatement
    \/ GetClosestBalanceSheet
    \/ GetClosestCashflowStatement

SpecResolve == InitResolve /\ [][NextResolve]_vars

(***************************************************************************)
(* safe_divide                                                             *)
(***************************************************************************)
MaxNumber == 5

RECURSIVE Gcd(_, _)
Gcd(a, b) == IF b = 0 THEN a ELSE Gcd(b, a % b)

\* The quotient n / d of two numbers, d # 0, as the fraction in lowest terms
\* with a positive denominator: equal quotients are equal values.  (The code
\* divides floats; the rounding of the quotient is not modelled.)
Quotient(n, d) ==
    LET g == Gcd(Abs(n), Abs(d))
        sign == IF d < 0 THEN -1 ELSE 1
    IN  <<(sign * n) \div g, (sign * d) \div g>>

\* Mutant of safe_divide: a missing numerator is taken as 0
safe_divide_none_as_zero(numerator, denominator) ==
    IF IsNull(denominator) \/ Val(denominator) = 0 THEN NULL
    ELSE IF IsNull(numerator) THEN Some(Quotient(0, Val(denominator)))
    ELSE Some(Quotient(Val(numerator), Val(denominator)))

safe_divide(numerator, denominator) ==
    IF IsNull(denominator) \/ Val(denominator) = 0 THEN NULL
    ELSE IF IsNull(numerator) THEN NULL
    ELSE Some(Quotient(Val(numerator), Val(denominator)))

\* The numerators and denominators tried
Numbers == {NULL} \cup {Some(n) : n \in -MaxNumber..MaxNumber}

SafeDivide ==
    /\ \E n \in Numbers, d \in Numbers :
         /\ call' = <<"safe_divide", n, d>>
         /\ result' = safe_divide(n, d)
    /\ UnchangedTables /\ UnchangedRun /\ UnchangedSink

InitDivide ==
    /\ income_statements = << >>
    /\ balance_sheets = << >>
    /\ cash_flow_statements = << >>
    /\ price_history = << >>
    /\ committed = <<balance_sheets, price_history>>
    /\ pc = "idle"
    /\ runs = 0
    /\ commits = 0
    /\ outcome = "none"
    /\ cleaned = 0
    /\ fixed_balance = 0
    /\ fixed_calculations = 0
    /\ call = << >>
    /\ result = NULL
    /\ companies = << >>
    /\ company_metrics = << >>
    /\ SinkIdle

NextDivide == SafeDivide

SpecDivide == InitDivide /\ [][NextDivide]_vars

(***************************************************************************)
(* HistoricalMetricsCalculator: the metric record of one period            *)
(***************************************************************************)
\* Dates count quarters: date(current_date.year - 1, month, day) is the date
\* four quarters earlier.
YearLength == 4

LastDate == MaxDate + YearLength

\* period_ending and price dates of the metric runs
PeriodDates == 1..LastDate

\* A company_id no row of companies carries
UnknownCompany == 3

\* A metrics dict: a function from the keys that were assigned to their
\* values.  Every numeric value of a dict is held as a fraction <<n, d>> in
\* lowest terms (an integer n as <<n, 1>>), a None value as NULL.
Rat(n) == <<n, 1>>

RatOf(x) == IF IsNull(x) THEN NULL ELSE Some(Rat(Val(x)))

\* metrics[k] = v when the guard of the assignment holds
Entry(guard, k, v) == IF guard THEN k :> v ELSE << >>

\* metrics.get(k)
Get(metrics, k) == IF k \in DOMAIN metrics THEN metrics[k] ELSE NULL

\* SELECT * FROM price_history WHERE company_id = %s AND date <= %s
\* ORDER BY date DESC LIMIT 1
get_closest_price_data(company_id, target_date) ==
    LET ids == {id \in DOMAIN price_history :
                   /\ price_history[id].company_id = company_id
                   /\ price_history[id].date <= target_date}
    IN  IF ids = {} THEN NULL
        ELSE Some(price_history[CHOOSE id \in ids :
                 \A other \in ids : price_history[other].date <= price_history[id].date])

\* The rows the fallback query of get_shares_outstanding may return: the
\* query does not filter on period_type, so an annual and a quarterly balance
\* sheet of the same period_ending tie under ORDER BY period_ending DESC and
\* LIMIT 1 returns either of them.
LatestBalanceSheets(company_id, target_date) ==
    LET ids == {id \in DOMAIN balance_sheets :
                   /\ balance_sheets[id].company_id = company_id
                   /\ balance_sheets[id].period_ending <= target_date}
        latest == {id \in ids : \A other \in ids :
                      balance_sheets[other].period_ending <= balance_sheets[id].period_ending}
    IN  IF ids = {} THEN {NULL} ELSE {Some(balance_sheets[id]) : id \in latest}

\* latest: the row the fallback query returned, one of LatestBalanceSheets
get_shares_outstanding(company_id, latest) ==
    IF company_id \in DOMAIN company_metrics /\ Truthy(company_metrics[company_id])
    THEN company_metrics[company_id]
    ELSE IF ~IsNull(latest) /\ Truthy(Val(latest).common_stock)
    THEN Val(latest).common_stock
    ELSE NULL

\* Lines 234-249 on the two resolved statements: whether a subtraction meets None
YoyRaises(current_income, prev_income) ==
    /\ ~IsNull(current_income) /\ ~IsNull(prev_income)
    /\ LET cur == Val(current_income)
           prev == Val(prev_income)
       IN  \/ /\ Truthy(prev.total_revenue) /\ Val(prev.total_revenue) > 0
              /\ IsNull(cur.total_revenue)
           \/ /\ Truthy(prev.net_income)
              /\ IsNull(cur.net_income)

\* Lines 234-249 on the two resolved statements, when nothing raises
yoy_growth_of(current_income, prev_income) ==
    IF IsNull(current_income) \/ IsNull(prev_income) THEN << >>
    ELSE LET cur == Val(current_income)
             prev == Val(prev_income)
         IN  Entry(Truthy(prev.total_revenue) /\ Val(prev.total_revenue) > 0,
                   "revenue_growth_yoy",
                   Some(Quotient((Val(cur.total_revenue) - Val(prev.total_revenue)) * 100,
                                 Val(prev.total_revenue))))
             @@
             Entry(Truthy(prev.net_income),
                   "earnings_growth_yoy",
                   Some(Quotient((Val(cur.net_income) - Val(prev.net_income)) * 100,
                                 Abs(Val(prev.net_income)))))

\* The statement calculate_yoy_growth compares with: the latest one at or
\* before the date one year earlier
prev_income_of(company_id, current_date, period_type) ==
    get_closest_income_statement(company_id, current_date - YearLength, period_type)

calculate_yoy_growth(company_id, current_date, period_type) ==
    yoy_growth_of(get_closest_income_statement(company_id, current_date, period_type),
                  prev_income_of(company_id, current_date, period_type))

\* metrics['market_cap'] = int(price_data['close_price'] * shares), lines 64-71.
\* Prices are whole numbers here, so int() leaves the product as it is.
MarketCapComputed(price_data, balance_data) ==
    /\ ~IsNull(price_data)
    /\ ~IsNull(balance_data)
    /\ Truthy(Val(balance_data).common_stock)
    /\ Val(Val(balance_data).common_stock) > 0

\* The exceptions of calculate_metrics_for_period: None * shares at line 71,
\* None - previous at lines 240 and 248.  Each is caught at line 136.
CalculationRaises(company_id, period_date, period_type) ==
    LET income_data == get_closest_income_statement(company_id, period_date, period_type)
        balance_data == get_closest_balance_sheet(company_id, period_date, period_type)
        price_data == get_closest_price_data(company_id, period_date)
    IN  \/ /\ MarketCapComputed(price_data, balance_data)
           /\ IsNull(Val(price_data).close_price)
        \/ YoyRaises(income_data,
                     prev_income_of(company_id, period_date, period_type))

\* The dict built by lines 63-134 when nothing raises
MetricsOf(company_id, period_date, period_type, latest) ==
    LET income_data == get_closest_income_statement(company_id, period_date, period_type)
        balance_data == get_closest_balance_sheet(company_id, period_date, period_type)
        cashflow_data == get_closest_cashflow_statement(company_id, period_date, period_type)
        price_data == get_closest_price_data(company_id, period_date)
        has_income == ~IsNull(income_data)
        has_balance == ~IsNull(balance_data)
        has_cashflow == ~IsNull(cashflow_data)
        has_price == ~IsNull(price_data)
        income == Val(income_data)
        balance == Val(balance_data)
        cashflow == Val(cashflow_data)
        close_price == Val(price_data).close_price
        has_market_cap == MarketCapComputed(price_data, balance_data)
        market_cap == Some(Val(close_price) * Val(balance.common_stock))
        revenue_positive ==
            has_income /\ Truthy(income.total_revenue) /\ Val(income.total_revenue) > 0
        valuation == has_income /\ has_market_cap /\ Truthy(market_cap)
        has_equity == has_balance /\ Truthy(balance.stockholders_equity)
        shares_outstanding == get_shares_outstanding(company_id, latest)
        has_shares ==
            has_balance /\ Truthy(shares_outstanding) /\ Val(shares_outstanding) > 0
    IN  Entry(has_price, "current_price", RatOf(close_price))
        @@ Entry(has_market_cap, "market_cap", RatOf(market_cap))
        @@ Entry(revenue_positive, "gross_margin",
                 safe_divide(income.gross_profit, income.total_revenue))
        @@ Entry(revenue_positive, "operating_margin",
                 safe_divide(income.operating_income, income.total_revenue))
        @@ Entry(revenue_positive, "profit_margin",
                 safe_divide(income.net_income, income.total_revenue))
        @@ Entry(valuation /\ Truthy(income.diluted_eps) /\ Val(income.diluted_eps) > 0
                     /\ has_price,
                 "trailing_pe", safe_divide(close_price, income.diluted_eps))
        @@ Entry(valuation /\ revenue_positive,
                 "price_to_sales", safe_divide(market_cap, income.total_revenue))
        @@ Entry(has_equity, "debt_to_equity",
                 safe_divide(balance.total_debt, balance.stockholders_equity))
        @@ Entry(has_equity /\ has_income /\ Truthy(income.net_income),
                 "return_on_equity",
                 safe_divide(income.net_income, balance.stockholders_equity))
        @@ Entry(has_balance /\ Truthy(balance.total_assets)
                     /\ Val(balance.total_assets) > 0
                     /\ has_income /\ Truthy(income.net_income),
                 "return_on_assets",
                 safe_divide(income.net_income, balance.total_assets))
        @@ Entry(has_balance /\ Truthy(balance.current_liabilities)
                     /\ Val(balance.current_liabilities) > 0,
                 "current_ratio",
                 safe_divide(balance.current_assets, balance.current_liabilities))
        @@ Entry(has_shares, "book_value_per_share",
                 safe_divide(balance.stockholders_equity, shares_outstanding))
        @@ Entry(has_shares, "shares_outstanding", RatOf(shares_outstanding))
        @@ Entry(has_cashflow, "operating_cashflow", RatOf(cashflow.operating_cash_flow))
        @@ Entry(has_cashflow, "free_cashflow", RatOf(cashflow.free_cash_flow))
        @@ Entry(has_cashflow /\ Truthy(cashflow.free_cash_flow) /\ has_shares,
                 "fcf_per_share",
                 safe_divide(cashflow.free_cash_flow, shares_outstanding))
        @@ calculate_yoy_growth(company_id, period_date, period_type)

\* if not any([income_data, balance_data, cashflow_data, price_data]): return None
NoInputData(company_id, period_date, period_type) ==
    /\ IsNull(get_closest_income_statement(company_id, period_date, period_type))
    /\ IsNull(get_closest_balance_sheet(company_id, period_date, period_type))
    /\ IsNull(get_closest_cashflow_statement(company_id, period_date, period_type))
    /\ IsNull(get_closest_price_data(company_id, period_date))

\* The return value: None (NULL) or the dict
calculate_metrics_for_period(company_id, period_date, period_type, latest) ==
    IF NoInputData(company_id, period_date, period_type) THEN NULL
    ELSE IF CalculationRaises(company_id, period_date, period_type) THEN NULL
    ELSE Some(MetricsOf(company_id, period_date, period_type, latest))

(***************************************************************************)
(* HistoricalMetricsPopulator: the joined row and its metrics              *)
(***************************************************************************)
\* The offset of LAG: LAG(i.total_revenue, 4) in calculate_quarterly_metrics,
\* LAG(i.total_revenue) in calculate_annual_metrics
LagOffset(period_type) == IF period_type = "quarterly" THEN 4 ELSE 1

\* The income statements of one company and period type: the window of LAG
SeriesIds(company_id, period_type) ==
    {id \in DOMAIN income_statements :
        /\ income_statements[id].company_id = company_id
        /\ income_statements[id].period_type = period_type}

\* Number of rows of the series that precede the row id under ORDER BY period_ending
Position(id) ==
    LET r == income_statements[id]
    IN  Cardinality({other \in SeriesIds(r.company_id, r.period_type) :
            income_statements[other].period_ending < r.period_ending})

\* The id of the row LAG reads for the row id: the one offset rows earlier
\* in the window, NULL when the window has no such row
LagRow(id, offset) ==
    LET r == income_statements[id]
        earlier == {other \in SeriesIds(r.company_id, r.period_type) :
                       Position(other) = Position(id) - offset}
    IN  IF earlier = {} THEN NULL ELSE Some(income_statements[CHOOSE other \in earlier : TRUE])

\* LEFT JOIN balance_sheets b ON ... b.period_ending = i.period_ending AND b.period_type = ...
JoinedBalanceSheet(r) ==
    LET ids == {id \in DOMAIN balance_sheets :
                   /\ balance_sheets[id].company_id = r.company_id
                   /\ balance_sheets[id].period_ending = r.period_ending
                   /\ balance_sheets[id].period_type = r.period_type}
    IN  IF ids = {} THEN NULL ELSE Some(balance_sheets[CHOOSE id \in ids : TRUE])

JoinedCashFlowStatement(r) ==
    LET ids == {id \in DOMAIN cash_flow_statements :
                   /\ cash_flow_statements[id].company_id = r.company_id
                   /\ cash_flow_statements[id].period_ending = r.period_ending
                   /\ cash_flow_statements[id].period_type = r.period_type}
    IN  IF ids = {} THEN NULL ELSE Some(cash_flow_statements[CHOOSE id \in ids : TRUE])

\* One row of the query of calculate_quarterly_metrics / calculate_annual_metrics
QueryRow(id) ==
    LET r == income_statements[id]
        b == JoinedBalanceSheet(r)
        cf == JoinedCashFlowStatement(r)
        lag == LagRow(id, LagOffset(r.period_type))
    IN  [company_id |-> r.company_id, period_ending |-> r.period_ending,
         total_revenue |-> r.total_revenue, gross_profit |-> r.gross_profit,
         operating_income |-> r.operating_income, net_income |-> r.net_income,
         diluted_eps |-> r.diluted_eps,
         total_assets |-> IF IsNull(b) THEN NULL ELSE Val(b).total_assets,
         current_assets |-> IF IsNull(b) THEN NULL ELSE Val(b).current_assets,
         current_liabilities |-> IF IsNull(b) THEN NULL ELSE Val(b).current_liabilities,
         stockholders_equity |-> IF IsNull(b) THEN NULL ELSE Val(b).stockholders_equity,
         total_debt |-> IF IsNull(b) THEN NULL ELSE Val(b).total_debt,
         operating_cash_flow |-> IF IsNull(cf) THEN NULL ELSE Val(cf).operating_cash_flow,
         prev_year_revenue |-> IF IsNull(lag) THEN NULL ELSE Val(lag).total_revenue,
         prev_year_earnings |-> IF IsNull(lag) THEN NULL ELSE Val(lag).net_income]

\* a / b of two numbers of the row
Ratio(a, b) == Some(Quotient(Val(a), Val(b)))

\* row[x] and row[x] > 0
Positive(x) == Truthy(x) /\ Val(x) > 0

\* The dict calculate_financial_metrics builds from a row whose absent
\* values are None
calculate_financial_metrics(row) ==
    Entry(Positive(row.total_revenue) /\ Truthy(row.gross_profit),
          "gross_margin", Ratio(row.gross_profit, row.total_revenue))
    @@ Entry(Positive(row.total_revenue) /\ Truthy(row.operating_income),
             "operating_margin", Ratio(row.operating_income, row.total_revenue))
    @@ Entry(Positive(row.total_revenue) /\ Truthy(row.net_income),
             "profit_margin", Ratio(row.net_income, row.total_revenue))
    @@ Entry(Positive(row.total_assets) /\ Truthy(row.net_income),
             "return_on_assets", Ratio(row.net_income, row.total_assets))
    @@ Entry(Positive(row.stockholders_equity) /\ Truthy(row.net_income),
             "return_on_equity", Ratio(row.net_income, row.stockholders_equity))
    @@ Entry(Positive(row.stockholders_equity) /\ Truthy(row.total_debt),
             "debt_to_equity", Ratio(row.total_debt, row.stockholders_equity))
    @@ Entry(Positive(row.current_liabilities) /\ Truthy(row.current_assets),
             "current_ratio", Ratio(row.current_assets, row.current_liabilities))
    @@ Entry(Positive(row.prev_year_revenue) /\ Truthy(row.total_revenue),
             "revenue_growth_yoy",
             Some(Quotient(Val(row.total_revenue) - Val(row.prev_year_revenue),
                           Val(row.prev_year_revenue))))
    @@ Entry(Positive(row.prev_year_earnings) /\ Truthy(row.net_income),
             "earnings_growth_yoy",
             Some(Quotient(Val(row.net_income) - Val(row.prev_year_earnings),
                           Val(row.prev_year_earnings))))
    @@ Entry(Truthy(row.operating_cash_flow),
             "operating_cashflow", RatOf(row.operating_cash_flow))

(***************************************************************************)
(* The metrics sink historical_company_metrics and its two writers         *)
(***************************************************************************)
\* The column list of the INSERT of store_historical_metrics
StoreColumns ==
    {"market_cap", "shares_outstanding", "current_price", "trailing_pe", "forward_pe",
     "price_to_book", "price_to_sales", "gross_margin", "operating_margin",
     "profit_margin", "return_on_assets", "return_on_equity", "revenue_growth_yoy",
     "earnings_growth_yoy", "debt_to_equity", "current_ratio", "operating_cashflow",
     "free_cashflow", "fcf_per_share", "book_value_per_share"}

\* The SET list of its ON CONFLICT ... DO UPDATE: forward_pe is not in it
StoreUpdateColumns == StoreColumns \ {"forward_pe"}

\* The column list of insert_historical_metrics, which is also the SET list
\* of its DO UPDATE
InsertColumns ==
    {"profit_margin", "operating_margin", "gross_margin", "return_on_assets",
     "return_on_equity", "debt_to_equity", "current_ratio", "revenue_growth_yoy",
     "earnings_growth_yoy", "operating_cashflow"}

\* The metric columns of a sink row that either writer names
SinkColumns == StoreColumns \cup InsertColumns

\* INSERT ... VALUES: the listed columns take metrics.get(column), the
\* others their default NULL
InsertedRow(columns, metrics, now) ==
    [values |-> [c \in SinkColumns |-> IF c \in columns THEN Get(metrics, c) ELSE NULL],
     updated_at |-> now]

\* ON CONFLICT (company_id, metric_date, period_type) DO UPDATE SET
\* column = EXCLUDED.column for the columns of the SET list,
\* updated_at = CURRENT_TIMESTAMP
UpdatedRow(old, columns, metrics, now) ==
    [values |-> [c \in SinkColumns |->
                    IF c \in columns THEN Get(metrics, c) ELSE old.values[c]],
     updated_at |-> now]

store_historical_metrics(sink, key, metrics, now) ==
    IF key \in DOMAIN sink
    THEN [sink EXCEPT ![key] = UpdatedRow(@, StoreUpdateColumns, metrics, now)]
    ELSE (key :> InsertedRow(StoreColumns, metrics, now)) @@ sink

insert_historical_metrics(sink, key, metrics, now) ==
    IF key \in DOMAIN sink
    THEN [sink EXCEPT ![key] = UpdatedRow(@, InsertColumns, metrics, now)]
    ELSE (key :> InsertedRow(InsertColumns, metrics, now)) @@ sink

(***************************************************************************)
(* populate_historical_metrics_for_company                                 *)
(***************************************************************************)
\* SELECT DISTINCT period_ending, period_type FROM income_statements
\* WHERE company_id = %s AND period_ending BETWEEN %s AND %s
PeriodsOf(company_id, start_date, end_date) ==
    {<<income_statements[id].period_ending, income_statements[id].period_type>> :
        id \in {i \in DOMAIN income_statements :
                   /\ income_statements[i].company_id = company_id
                   /\ income_statements[i].period_ending >= start_date
                   /\ income_statements[i].period_ending <= end_date}}

\* if metrics:  (None and the empty dict are both false)
MetricsTruthy(metrics) == ~IsNull(metrics) /\ DOMAIN Val(metrics) # {}

\* The loop of lines 332-347 over the periods still to do.  The periods are
\* distinct keys of the sink, so the order of the loop does not show in the
\* result.  picks[period] is the row the fallback query of
\* get_shares_outstanding returns for that period.
RECURSIVE StorePeriods(_, _, _, _, _)
StorePeriods(sink, company_id, periods, picks, now) ==
    IF periods = {} THEN sink
    ELSE LET period == CHOOSE k \in periods : TRUE
             metrics == calculate_metrics_for_period(company_id, period[1], period[2],
                                                     picks[period])
             stored == IF MetricsTruthy(metrics)
                       THEN store_historical_metrics(
                                sink, <<company_id, period[1], period[2]>>,
                                Val(metrics), now)
                       ELSE sink
         IN  StorePeriods(stored, company_id, periods \ {period}, picks, now)

\* The outcomes of the fallback query for each period of the company
FallbackPicks(company_id, periods) ==
    {picks \in [periods -> UNION {LatestBalanceSheets(company_id, k[1]) : k \in periods}] :
        \A k \in periods : picks[k] \in LatestBalanceSheets(company_id, k[1])}

\* The sink after the method ran to its commit
populate_historical_metrics_for_company(sink, company_id, start_date, end_date, picks, now) ==
    StorePeriods(sink, company_id, PeriodsOf(company_id, start_date, end_date), picks, now)


(***************************************************************************)
(* The calculator specification: stored inputs, then one computation       *)
(***************************************************************************)
UnchangedBatch == UNCHANGED <<batch_pc, batch_idx, attempted>>

\* calculate_metrics_for_period for any company id, date and period type
CalculateMetricsForPeriod ==
    /\ call = << >>
    /\ \E c \in Companies \cup {UnknownCompany}, d \in PeriodDates, p \in PeriodTypes :
         \E latest \in LatestBalanceSheets(c, d) :
           /\ call' = <<"calculate_metrics_for_period", c, d, p, latest>>
           /\ result' = calculate_metrics_for_period(c, d, p, latest)
    /\ UnchangedTables /\ UnchangedRun /\ UnchangedSink

\* calculate_financial_metrics on the query row of one income statement
CalculateFinancialMetrics ==
    /\ call = << >>
    /\ \E id \in DOMAIN income_statements :
         /\ call' = <<"calculate_financial_metrics", id>>
         /\ result' = Some(calculate_financial_metrics(QueryRow(id)))
    /\ UnchangedTables /\ UnchangedRun /\ UnchangedSink

\* populate_historical_metrics_for_company over the whole date range, up to
\* and including self.conn.commit()
PopulateHistoricalMetricsForCompany ==
    /\ call = << >>
    /\ \E c \in Companies :
         \E picks \in FallbackPicks(c, PeriodsOf(c, 1, LastDate)) :
           /\ call' = <<"populate_historical_metrics_for_company", c>>
           /\ historical_company_metrics' =
                  populate_historical_metrics_for_company(
                      historical_company_metrics, c, 1, LastDate, picks, clock + 1)
    /\ sink_committed' = historical_company_metrics'
    /\ clock' = clock + 1
    /\ UNCHANGED result
    /\ UnchangedTables /\ UnchangedRun /\ UnchangedBatch

\* Values of the income columns: absent, negative, zero, positive
IncomeAmounts == {NULL, Some(-100), Some(0), Some(50), Some(200)}

\* The key of the period the scenarios compute
CurrentKey == <<1, LastDate - 2, "annual">>

\* The key of the statement one year before it
PreviousKey == <<1, LastDate - 2 - YearLength, "annual">>

MetricBalanceRow(id, key, ta, se, cs) ==
    [BalanceRow(id, key, ta, Some(100), se, Some(300), Some(150), NULL,
                NULL, NULL, Some(80), NULL, NULL)
        EXCEPT !.common_stock = cs]

\* Two annual statements one year apart, every revenue and earnings value
GrowthScenarios ==
    {[income |-> (1 :> IncomeRow(1, PreviousKey, pr, Some(50), Some(50), pn, Some(5)))
                 @@ (2 :> IncomeRow(2, CurrentKey, cr, Some(50), Some(50), cn, Some(5))),
      balance |-> << >>, cashflow |-> << >>, price |-> << >>, shares |-> << >>] :
        pr \in IncomeAmounts, pn \in IncomeAmounts,
        cr \in IncomeAmounts, cn \in IncomeAmounts}

\* One income statement and one balance sheet of the same period, every
\* numerator and denominator of the profitability ratios
ProfitabilityScenarios ==
    {[income |-> 1 :> IncomeRow(1, CurrentKey, rev, gross, Some(50), net, Some(5)),
      balance |-> 1 :> MetricBalanceRow(1, CurrentKey, ta, se, NULL),
      cashflow |-> << >>, price |-> << >>, shares |-> << >>] :
        rev \in IncomeAmounts, gross \in {NULL, Some(0), Some(50)}, net \in IncomeAmounts,
        ta \in {NULL, Some(0), Some(400)},
        se \in {NULL, Some(0), Some(-50), Some(200)}}

\* The price_history tables of the valuation scenarios
PriceChoices ==
    {<< >>} \cup {1 :> PriceRow(1, 1, LastDate - 2, c, c, c, c) :
                    c \in {NULL, Some(0), Some(100)}}

\* The balance_sheets tables of the valuation scenarios
BalanceChoices ==
    {<< >>} \cup {1 :> MetricBalanceRow(1, CurrentKey, Some(400), se, cs) :
                    se \in {NULL, Some(0), Some(200)},
                    cs \in {NULL, Some(0), Some(-5), Some(10)}}

\* The company_metrics tables of the valuation scenarios
SharesChoices == {<< >>} \cup {1 :> s : s \in {NULL, Some(0), Some(20)}}

\* The cash_flow_statements tables of the valuation scenarios
CashFlowChoices ==
    {<< >>} \cup {1 :> CashFlowRow(1, CurrentKey, Some(60), f) :
                    f \in {NULL, Some(0), Some(40)}}

\* Price, earnings per share, share counts and book value
ValuationScenarios ==
    {[income |-> 1 :> IncomeRow(1, CurrentKey, Some(200), Some(50), Some(50), Some(50), eps),
      balance |-> b, cashflow |-> cf, price |-> ph, shares |-> sh] :
        eps \in {NULL, Some(-2), Some(0), Some(5)},
        b \in BalanceChoices, cf \in CashFlowChoices, ph \in PriceChoices,
        sh \in SharesChoices}

\* An annual and a quarterly balance sheet of the same period_ending with
\* different common_stock: the fallback share count is either
TieScenarios ==
    {[income |-> 1 :> IncomeRow(1, CurrentKey, Some(200), Some(50), Some(50), Some(50), eps),
      balance |-> (1 :> MetricBalanceRow(1, CurrentKey, Some(400), Some(200), Some(10)))
                  @@ (2 :> MetricBalanceRow(2, <<1, LastDate - 2, "quarterly">>,
                                            Some(400), Some(200), Some(30))),
      cashflow |-> << >>,
      price |-> 1 :> PriceRow(1, 1, LastDate - 2, Some(100), Some(100), Some(100), Some(100)),
      shares |-> << >>] :
        eps \in {NULL, Some(5)}}

\* A series of statements of one period type at any dates, with distinct
\* positive revenue and earnings
SeriesScenarios ==
    {[income |-> [d \in dates |->
                     IncomeRow(d, <<1, d, p>>, Some(100 + 10 * d), Some(50), Some(50),
                               Some(20 + d), Some(5))],
      balance |-> << >>, cashflow |-> << >>, price |-> << >>, shares |-> << >>] :
        dates \in {ds \in SUBSET PeriodDates : Cardinality(ds) \in {2, 3, 5}},
        p \in PeriodTypes}

MetricScenarios ==
    GrowthScenarios \cup ProfitabilityScenarios \cup ValuationScenarios
        \cup TieScenarios \cup SeriesScenarios

\* The state of the reconciliation pass outside of any run
RunIdle ==
    /\ committed = <<balance_sheets, price_history>>
    /\ pc = "idle"
    /\ runs = 0
    /\ commits = 0
    /\ outcome = "none"
    /\ cleaned = 0
    /\ fixed_balance = 0
    /\ fixed_calculations = 0

InitMetrics ==
    /\ \E s \in MetricScenarios :
         /\ income_statements = s.income
         /\ balance_sheets = s.balance
         /\ cash_flow_statements = s.cashflow
         /\ price_history = s.price
         /\ company_metrics = s.shares
    /\ companies = <<1, 2>>
    /\ RunIdle
    /\ SinkIdle
    /\ call = << >>
    /\ result = NULL

NextMetrics ==
    \/ CalculateMetricsForPeriod
    \/ CalculateFinancialMetrics
    \/ PopulateHistoricalMetricsForCompany

SpecMetrics == InitMetrics /\ [][NextMetrics]_vars

(***************************************************************************)
(* The sink specification: upserts by both writers in any order            *)
(***************************************************************************)
MaxUpserts == 3

\* Keys of the sink the upserts go to
SinkKeys == {<<1, 1, "annual">>, <<1, 1, "quarterly">>}

\* Dicts calculate_metrics_for_period hands to store_historical_metrics: a
\* full record, one of a period without price data, one with a None value
CalculatorDicts ==
    {("current_price" :> Some(Rat(100))) @@ ("market_cap" :> Some(Rat(1000)))
         @@ ("trailing_pe" :> Some(Rat(20))) @@ ("price_to_sales" :> Some(Rat(5)))
         @@ ("profit_margin" :> Some(<<1, 4>>)) @@ ("current_ratio" :> Some(Rat(2))),
     ("profit_margin" :> Some(<<1, 2>>)) @@ ("gross_margin" :> NULL),
     ("current_price" :> NULL)}

\* Dicts calculate_financial_metrics hands to insert_historical_metrics
PopulatorDicts ==
    {("profit_margin" :> Some(<<1, 5>>)) @@ ("return_on_assets" :> Some(<<1, 8>>))
         @@ ("revenue_growth_yoy" :> Some(<<1, 10>>)),
     ("current_ratio" :> Some(Rat(3))),
     << >>}

\* store_historical_metrics(company_id, metric_date, period_type, metrics)
StoreHistoricalMetrics ==
    /\ clock < MaxUpserts
    /\ \E key \in SinkKeys, metrics \in CalculatorDicts :
         /\ call' = <<"store_historical_metrics", key, metrics>>
         /\ historical_company_metrics' =
                store_historical_metrics(historical_company_metrics, key, metrics, clock + 1)
    /\ clock' = clock + 1
    /\ UNCHANGED <<result, sink_committed>>
    /\ UnchangedTables /\ UnchangedRun /\ UnchangedBatch

\* insert_historical_metrics(company_id, metric_date, period_type, metrics)
InsertHistoricalMetrics ==
    /\ clock < MaxUpserts
    /\ \E key \in SinkKeys, metrics \in PopulatorDicts :
         /\ call' = <<"insert_historical_metrics", key, metrics>>
         /\ historical_company_metrics' =
                insert_historical_metrics(historical_company_metrics, key, metrics, clock + 1)
    /\ clock' = clock + 1
    /\ UNCHANGED <<result, sink_committed>>
    /\ UnchangedTables /\ UnchangedRun /\ UnchangedBatch

InitSink ==
    /\ income_statements = << >>
    /\ balance_sheets = << >>
    /\ cash_flow_statements = << >>
    /\ price_history = << >>
    /\ company_metrics = << >>
    /\ companies = <<1, 2>>
    /\ RunIdle
    /\ SinkIdle
    /\ call = << >>
    /\ result = NULL

NextSink ==
    \/ StoreHistoricalMetrics
    \/ InsertHistoricalMetrics

SpecSink == InitSink /\ [][NextSink]_vars

(***************************************************************************)
(* populate_all_historical_metrics: the batch over the companies           *)
(***************************************************************************)
\* self.connect_db(); SELECT id, symbol FROM companies ORDER BY symbol
StartBatch ==
    /\ batch_pc = "idle"
    /\ batch_pc' = "loop"
    /\ batch_idx' = 0
    /\ attempted' = << >>
    /\ UNCHANGED <<historical_company_metrics, sink_committed, clock, call, result>>
    /\ UnchangedTables /\ UnchangedRun

\* connect_db or the company query raises: the handler of line 384 rolls
\* back and re-raises, no company is attempted
BatchSetupRaises ==
    /\ batch_pc = "idle"
    /\ batch_pc' = "raised"
    /\ historical_company_metrics' = rollback(historical_company_metrics, sink_committed)
    /\ UNCHANGED <<sink_committed, clock, batch_idx, attempted, call, result>>
    /\ UnchangedTables /\ UnchangedRun

\* One turn of the loop in which populate_historical_metrics_for_company
\* returns: its stores are committed
PopulateCompanyCommits ==
    /\ batch_pc = "loop"
    /\ batch_idx < Len(companies)
    /\ LET company_id == companies[batch_idx + 1]
       IN  /\ \E picks \in FallbackPicks(company_id, PeriodsOf(company_id, 1, LastDate)) :
                historical_company_metrics' =
                    populate_historical_metrics_for_company(
                        historical_company_metrics, company_id, 1, LastDate,
                        picks, clock + 1)
           /\ attempted' = Append(attempted, <<company_id, "committed">>)
    /\ sink_committed' = historical_company_metrics'
    /\ clock' = clock + 1
    /\ batch_idx' = batch_idx + 1
    /\ UNCHANGED <<batch_pc, call, result>>
    /\ UnchangedTables /\ UnchangedRun

\* One turn of the loop in which an exception leaves
\* populate_historical_metrics_for_company (its period query, a statement
\* outside the inner try, or its commit): except: self.conn.rollback(); continue
PopulateCompanyRaises ==
    /\ batch_pc = "loop"
    /\ batch_idx < Len(companies)
    /\ attempted' = Append(attempted, <<companies[batch_idx + 1], "raised">>)
    /\ historical_company_metrics' = rollback(historical_company_metrics, sink_committed)
    /\ clock' = clock + 1
    /\ batch_idx' = batch_idx + 1
    /\ UNCHANGED <<batch_pc, sink_committed, call, result>>
    /\ UnchangedTables /\ UnchangedRun

\* The loop is exhausted: "Historical metrics population completed!", close_db
FinishBatch ==
    /\ batch_pc = "loop"
    /\ batch_idx = Len(companies)
    /\ batch_pc' = "done"
    /\ UNCHANGED <<historical_company_metrics, sink_committed, clock, batch_idx,
                   attempted, call, result>>
    /\ UnchangedTables /\ UnchangedRun

PopulateAllHistoricalMetrics ==
    \/ StartBatch
    \/ BatchSetupRaises
    \/ PopulateCompanyCommits
    \/ PopulateCompanyRaises
    \/ FinishBatch

\* Every order ORDER BY symbol can give the rows of companies
CompanyOrders ==
    {<< >>} \cup {<<c>> : c \in Companies}
        \cup {order \in Companies \X Companies : order[1] # order[2]}

\* The income statements of one company of the batch: none or one
BatchIncomeRows(c) ==
    {<< >>} \cup
    {(c :> IncomeRow(c, <<c, d, p>>, Some(200), Some(50), Some(50), net, Some(5))) :
        d \in {1, LastDate}, p \in PeriodTypes, net \in {NULL, Some(50)}}

\* Merge of the per-company tables, which have disjoint ids
InitBatch ==
    /\ companies \in CompanyOrders
    /\ \E rows \in [Companies -> UNION {BatchIncomeRows(c) : c \in Companies}] :
         /\ \A c \in Companies : rows[c] \in BatchIncomeRows(c)
         /\ income_statements = rows[1] @@ rows[2]
    /\ balance_sheets = << >>
    /\ cash_flow_statements = << >>
    /\ price_history = << >>
    /\ company_metrics = << >>
    /\ RunIdle
    /\ SinkIdle
    /\ call = << >>
    /\ result = NULL

NextBatch == PopulateAllHistoricalMetrics

SpecBatch == InitBatch /\ [][NextBatch]_vars

\* The loop is a sequential Python loop: a turn that has begun ends, by the
\* return or by an exception of the populate method, and the statement after
\* the exhausted loop is executed.  Nothing makes the batch start.
SpecBatchFair ==
    /\ SpecBatch
    /\ WF_vars(PopulateCompanyRaises \/ PopulateCompanyCommits)
    /\ WF_vars(FinishBatch)

(***************************************************************************)
(* Ingestion: store_balance_sheets, then the commit of the download        *)
(***************************************************************************)
\* The largest id the sequence of balance_sheets.id has handed out
MaxStored == 3

\* The highest id of a table, 0 for the empty table
MaxId(t) ==
    IF DOMAIN t = {} THEN 0 ELSE CHOOSE m \in DOMAIN t : \A i \in DOMAIN t : i <= m

\* DELETE FROM balance_sheets WHERE company_id = %s AND period_type = %s, then
\* one INSERT per column of the frame.  data maps each period_ending of the
\* frame to <<Total Assets, Total Liabilities Net Minority Interest,
\* Stockholders Equity>>; the other amounts of the frame are absent.  The
\* INSERT names no quality column: the new rows take the defaults of
\* BalanceRow.  New ids follow the ids of the table.
store_balance_sheets(t, company_id, period_type, data) ==
    LET kept == {id \in DOMAIN t : ~(/\ t[id].company_id = company_id
                                     /\ t[id].period_type = period_type)}
        base == MaxId(t)
        IdOf(d) == base + Cardinality({e \in DOMAIN data : e <= d})
        inserted == {IdOf(d) : d \in DOMAIN data}
        PeriodOf(id) == CHOOSE d \in DOMAIN data : IdOf(d) = id
    IN  [id \in kept \cup inserted |->
            IF id \in kept THEN t[id]
            ELSE BalanceRow(id, <<company_id, PeriodOf(id), period_type>>,
                            data[PeriodOf(id)][1], data[PeriodOf(id)][2],
                            data[PeriodOf(id)][3],
                            NULL, NULL, NULL, NULL, NULL, NULL, NULL, NULL)]

\* The core amounts of a downloaded balance sheet: consistent, without
\* assets, without equity, off by 399,900, off by 2,000,000, negative assets
DownloadedCore ==
    {<<Some(1000000), Some(600000), Some(400000)>>,
     <<NULL, Some(600000), Some(400000)>>,
     <<Some(1000000), Some(600000), NULL>>,
     <<Some(1000000), Some(600000), Some(100)>>,
     <<Some(3000000), Some(600000), Some(400000)>>,
     <<Some(-2000000), Some(600000), Some(400000)>>}

\* The frames ticker.balance_sheet may hold: one or two periods
DownloadedFrames ==
    UNION {[periods -> DownloadedCore] : periods \in {{1}, {2}, {1, 2}}}

\* download_and_store_company_data for one company: store_balance_sheets for
\* the annual frame, then self.conn.commit().  The download and the
\* reconciliation pass are separate programs; here they take turns.
StoreBalanceSheets ==
    /\ pc = "idle"
    /\ \E company_id \in Companies, data \in DownloadedFrames :
         /\ MaxId(balance_sheets) + Cardinality(DOMAIN data) <= MaxStored
         /\ balance_sheets' = store_balance_sheets(balance_sheets, company_id, "annual", data)
    /\ committed' = <<balance_sheets', price_history>>
    /\ UNCHANGED <<price_history, pc, runs, commits, outcome, cleaned, fixed_balance,
                   fixed_calculations>>
    /\ UnchangedStatements /\ UnchangedCalls

\* An empty balance_sheets table and one stored price
InitIngest ==
    /\ balance_sheets = << >>
    /\ price_history = 1 :> PriceRow(1, 1, 1, Some(10), Some(12), Some(9), Some(11))
    /\ income_statements = << >>
    /\ cash_flow_statements = << >>
    /\ companies = <<1, 2>>
    /\ company_metrics = << >>
    /\ RunIdle
    /\ SinkIdle
    /\ call = << >>
    /\ result = NULL

NextIngest ==
    \/ StoreBalanceSheets
    \/ RunCompleteFix

SpecIngest == InitIngest /\ [][NextIngest]_vars

(***************************************************************************)
(* Downloads dated after the periods already stored                        *)
(***************************************************************************)
\* Every date a stored price or statement carries is at or before day
StoredBy(day) ==
    /\ \A id \in DOMAIN price_history : price_history[id].date <= day
    /\ \A id \in DOMAIN income_statements : income_statements[id].period_ending <= day
    /\ \A id \in DOMAIN balance_sheets : balance_sheets[id].period_ending <= day
    /\ \A id \in DOMAIN cash_flow_statements :
           cash_flow_statements[id].period_ending <= day

\* INSERT INTO company_metrics ... ON CONFLICT (company_id) DO UPDATE SET
\* shares_outstanding = EXCLUDED.shares_outstanding, ...: one row per company
store_company_metrics(t, company_id, shares_outstanding) ==
    (company_id :> shares_outstanding) @@ t

\* store_price_history of a history that holds the stored rows of the
\* company and one more row, dated day: the rows are deleted and inserted
\* again, the row of the new day is added
store_price_history(t, company_id, day, close_price) ==
    (MaxId(t) + 1 :> PriceRow(MaxId(t) + 1, company_id, day,
                              close_price, close_price, close_price, close_price))
        @@ [id \in {i \in DOMAIN t : ~(t[i].company_id = company_id /\ t[i].date = day)}
               |-> t[id]]

\* sharesOutstanding values of ticker.info
DownloadedShares == {NULL, Some(20), Some(30)}

\* Close values of the downloaded day
DownloadedCloses == {NULL, Some(100), Some(150)}

\* download_and_store_company_data on the day today: store_company_metrics
\* with the info of that day (updated_at = datetime.now())
StoreCompanyMetrics ==
    /\ call = << >>
    /\ \E company_id \in Companies, today \in PeriodDates, shares \in DownloadedShares :
         /\ StoredBy(today)
         /\ company_metrics' = store_company_metrics(company_metrics, company_id, shares)
         /\ call' = <<"store_company_metrics", company_id, today>>
    /\ UNCHANGED <<balance_sheets, income_statements, cash_flow_statements, price_history,
                   companies, result>>
    /\ UnchangedRun /\ UnchangedSink

\* download_and_store_company_data on the day today: store_price_history
\* with the history up to that day
StorePriceHistory ==
    /\ call = << >>
    /\ \E company_id \in Companies, today \in PeriodDates, close \in DownloadedCloses :
         /\ StoredBy(today)
         /\ price_history' = store_price_history(price_history, company_id, today, close)
         /\ call' = <<"store_price_history", company_id, today>>
    /\ UNCHANGED <<balance_sheets, income_statements, cash_flow_statements,
                   company_metrics, companies, result>>
    /\ committed' = <<balance_sheets, price_history'>>
    /\ UNCHANGED <<pc, runs, commits, outcome, cleaned, fixed_balance, fixed_calculations>>
    /\ UnchangedSink

\* The stores of the valuation scenarios, then one download
InitAsOf ==
    /\ \E s \in ValuationScenarios \cup TieScenarios :
         /\ income_statements = s.income
         /\ balance_sheets = s.balance
         /\ cash_flow_statements = s.cashflow
         /\ price_history = s.price
         /\ company_metrics = s.shares
    /\ companies = <<1, 2>>
    /\ RunIdle
    /\ SinkIdle
    /\ call = << >>
    /\ result = NULL

NextAsOf ==
    \/ StoreCompanyMetrics
    \/ StorePriceHistory

SpecAsOf == InitAsOf /\ [][NextAsOf]_vars

(***************************************************************************)
(* The reconciler and the calculator on one store                          *)
(*                                                                         *)
(* BalanceSheetFixer and HistoricalMetricsCalculator are two programs,     *)
(* each with a connection of its own, and no code of the repository calls  *)
(* one after the other.  The calculator reads what is committed: it runs   *)
(* here in the states where the open transaction of the pass has written   *)
(* nothing yet, so that the working tables are the committed ones.         *)
(***************************************************************************)
\* calculate_metrics_for_period on the calculator's connection
CalculateOnOwnConnection ==
    /\ balance_sheets = committed[1]
    /\ price_history = committed[2]
    /\ CalculateMetricsForPeriod

InitTwoPrograms ==
    /\ \E rows \in [BalanceIds -> UNION {TypicalRows(i) : i \in BalanceIds}] :
         /\ \A i \in BalanceIds : rows[i].id = i
         /\ balance_sheets = rows
    /\ price_history \in PriceTables
    /\ income_statements = << >>
    /\ cash_flow_statements = << >>
    /\ company_metrics = << >>
    /\ companies = <<1, 2>>
    /\ RunIdle
    /\ SinkIdle
    /\ call = << >>
    /\ result = NULL

NextTwoPrograms == RunCompleteFix \/ CalculateOnOwnConnection

SpecTwoPrograms == InitTwoPrograms /\ [][NextTwoPrograms]_vars

(***************************************************************************)
(* Properties of the reconciliation pass                                   *)
(***************************************************************************)
\* The field values of a table apart from the update timestamp
Fields(t) == [id \in DOMAIN t |-> [t[id] EXCEPT !.updated_at = 0]]

\* A later pass has run all its steps on the store a committed pass produced
LaterPassDone == pc = "report" /\ commits >= 1

\* C1: a second reconciliation pass on the store produced by a first pass
\* leaves every balance record's field values, apart from updated_at, as they
\* were after the first pass.
C1_SecondPassKeepsFields ==
    LaterPassDone => Fields(balance_sheets) = Fields(committed[1])

\* A later pass is done on a store in which the first pass repaired an equity
\* (the value is none ingestion stored) and deleted a row.
C1_Witness ==
    /\ LaterPassDone
    /\ DOMAIN balance_sheets # BalanceIds
    /\ \E id \in DOMAIN balance_sheets :
         balance_sheets[id].stockholders_equity \notin Amounts

\* C2: a second pass on the output of a first pass performs no write in its
\* cleaning, repair and derivation steps: the three counts are zero.
C2_SecondPassWritesNothing ==
    LaterPassDone =>
        /\ cleaned = 0
        /\ fixed_balance = 0
        /\ fixed_calculations = 0

C4_RepairIsBounded ==
    [][pc = "fix_equation" =>
          \A id \in DOMAIN balance_sheets :
              LET old == balance_sheets[id]
                  new == balance_sheets'[id]
              IN  /\ new.stockholders_equity # old.stockholders_equity =>
                        2 * Val(new.stockholders_equity) >= -Val(old.total_assets)
                  /\ new.total_liabilities # old.total_liabilities =>
                        /\ Val(new.total_liabilities) >= 0
                        /\ Val(new.total_liabilities) <= Val(old.total_assets)]_vars

\* The repair has just written a negative equity on one row and a liability
\* on another.
C4_Witness ==
    /\ pc = "fix_calculated"
    /\ fixed_balance = 2
    /\ \E id \in DOMAIN balance_sheets :
         LET r == balance_sheets[id]
         IN  /\ r.stockholders_equity \notin Amounts
             /\ Val(r.stockholders_equity) < 0
    /\ \E id \in DOMAIN balance_sheets :
         LET r == balance_sheets[id]
         IN  /\ ~IsNull(r.total_liabilities)
             /\ r.total_liabilities # committed[1][id].total_liabilities

\* The decision table of the quality scorer, row by row
TableRowMatches(i, r) ==
    CASE i = 1 -> IsNull(r.total_assets)
      [] i = 2 -> IsNull(r.total_liabilities)
      [] i = 3 -> IsNull(r.stockholders_equity)
      [] i = 4 -> CorePresent(r) /\ Imbalance(r) > 1000000
      [] i = 5 -> CorePresent(r) /\ Imbalance(r) > 100000
      [] i = 6 -> TRUE

TableScore == <<0, 30, 30, 50, 80, 100>>

TableFlag == <<"missing_assets", "missing_liabilities", "missing_equity",
               "major_imbalance", "minor_imbalance", "clean">>

FirstMatchingRow(r) ==
    CHOOSE i \in 1..6 : TableRowMatches(i, r) /\ \A j \in 1..(i - 1) : ~TableRowMatches(j, r)

\* C5: add_data_quality_flags gives every record the score and the single
\* flag of the first matching row of the decision table.
C5_FlagsFollowDecisionTable ==
    pc = "report" =>
        \A id \in DOMAIN balance_sheets :
            LET r == balance_sheets[id]
                i == FirstMatchingRow(r)
            IN  /\ r.data_quality_score = TableScore[i]
                /\ r.quality_flags = <<TableFlag[i]>>

\* The flags were just computed: one row is off by exactly 100,000 and clean,
\* another is a minor imbalance.
C5_Witness ==
    /\ pc = "report"
    /\ \E id \in DOMAIN balance_sheets :
         LET r == balance_sheets[id]
         IN  CorePresent(r) /\ Imbalance(r) = 100000 /\ r.quality_flags = <<"clean">>
    /\ \E id \in DOMAIN balance_sheets :
         balance_sheets[id].quality_flags = <<"minor_imbalance">>

\* C6: for every record with total_assets and total_liabilities present (0
\* counts as present) and stockholders_equity absent or out of tolerance,
\* fix_balance_sheet_equation sets equity = assets - liabilities whenever the
\* result is not more negative than -0.5 x assets.
C6_EquityIsDerived ==
    [][pc = "fix_equation" =>
          \A id \in DOMAIN balance_sheets :
              LET old == balance_sheets[id]
                  new == balance_sheets'[id]
              IN  (/\ ~IsNull(old.total_assets)
                   /\ ~IsNull(old.total_liabilities)
                   /\ IsNull(old.stockholders_equity) \/ Imbalance(old) > 1000000
                   /\ 2 * (Val(old.total_assets) - Val(old.total_liabilities))
                        >= -Val(old.total_assets))
                  => new.stockholders_equity
                       = Some(Val(old.total_assets) - Val(old.total_liabilities))]_vars

\* C7: for every record with total_assets and stockholders_equity present (0
\* counts as present) and total_liabilities absent, fix_balance_sheet_equation
\* sets liabilities = assets - equity whenever the result lies in [0, assets].
C7_LiabilitiesAreDerived ==
    [][pc = "fix_equation" =>
          \A id \in DOMAIN balance_sheets :
              LET old == balance_sheets[id]
                  new == balance_sheets'[id]
              IN  (/\ ~IsNull(old.total_assets)
                   /\ ~IsNull(old.stockholders_equity)
                   /\ IsNull(old.total_liabilities)
                   /\ Val(old.total_assets) - Val(old.stockholders_equity) >= 0
                   /\ Val(old.total_assets) - Val(old.stockholders_equity)
                        <= Val(old.total_assets))
                  => new.total_liabilities
                       = Some(Val(old.total_assets) - Val(old.stockholders_equity))]_vars

\* The record of the scenario: assets 1,000,000, liabilities 600,000, equity 100
IsScenarioRecord(r) ==
    /\ r.total_assets = Some(1000000)
    /\ r.total_liabilities = Some(600000)
    /\ r.stockholders_equity = Some(100)

\* C8: the repair writes stockholders_equity only on records with assets and
\* liabilities present and equity absent or out of tolerance, and writes
\* total_liabilities only on records with assets and equity present and
\* liabilities absent; the scenario record is left unchanged by the repair and
\* is flagged minor_imbalance with score 80.
C8_RepairNeedsItsPreconditions ==
    /\ [][pc = "fix_equation" =>
            \A id \in DOMAIN balance_sheets :
                LET old == balance_sheets[id]
                    new == balance_sheets'[id]
                IN  /\ new.stockholders_equity # old.stockholders_equity =>
                          /\ ~IsNull(old.total_assets)
                          /\ ~IsNull(old.total_liabilities)
                          /\ IsNull(old.stockholders_equity) \/ Imbalance(old) > 1000000
                    /\ new.total_liabilities # old.total_liabilities =>
                          /\ ~IsNull(old.total_assets)
                          /\ ~IsNull(old.stockholders_equity)
                          /\ IsNull(old.total_liabilities)
                    /\ IsScenarioRecord(old) => new = old]_vars
    /\ [](pc = "report" =>
            \A id \in DOMAIN balance_sheets :
                LET r == balance_sheets[id]
                IN  IsScenarioRecord(r) =>
                        /\ r.quality_flags = <<"minor_imbalance">>
                        /\ r.data_quality_score = 80)

\* The repair wrote the other row and the scenario record came through to the
\* flags with its equity of 100.
C8_Witness ==
    /\ pc = "report"
    /\ fixed_balance = 1
    /\ \E id \in DOMAIN balance_sheets :
         /\ IsScenarioRecord(balance_sheets[id])
         /\ balance_sheets[id].quality_flags = <<"minor_imbalance">>

(***************************************************************************)
(* Properties of the resolvers and of safe_divide                          *)
(***************************************************************************)
\* The table a resolver reads, by the resolver's name
TableOf(resolver) ==
    CASE resolver = "get_closest_income_statement" -> income_statements
      [] resolver = "get_closest_balance_sheet" -> balance_sheets
      [] resolver = "get_closest_cashflow_statement" -> cash_flow_statements

Resolved == call # << >> /\ call[1] # "safe_divide"

\* The rows a lookup may return: same company, same period type, not after
\* the target date
Eligible(t, c, d, p) ==
    {id \in DOMAIN t :
        t[id].company_id = c /\ t[id].period_type = p /\ ~(t[id].period_ending > d)}

\* C9: for each statement kind, the resolver returns the record of the
\* company and period type with the greatest period_ending <= target date,
\* absent when there is none, and changes no stored record.
C9_ResolverReturnsLatestAsOf ==
    /\ [](Resolved =>
            LET t == TableOf(call[1])
                rows == Eligible(t, call[2], call[3], call[4])
            IN  /\ result = NULL <=> rows = {}
                /\ result # NULL =>
                     /\ Val(result).id \in rows
                     /\ Val(result) = t[Val(result).id]
                     /\ \A id \in rows :
                          t[id].period_ending <= Val(result).period_ending)
    /\ [][UnchangedTables]_vars

\* A lookup returned a record dated exactly at the target date while an
\* earlier record of the same company and type, and another type's, exist.
C9_Witness ==
    /\ Resolved
    /\ result # NULL
    /\ Val(result).period_ending = call[3]
    /\ LET t == TableOf(call[1])
       IN  /\ \E id \in DOMAIN t :
                /\ t[id].company_id = call[2]
                /\ t[id].period_type = call[4]
                /\ t[id].period_ending < call[3]
           /\ \E id \in DOMAIN t :
                /\ t[id].company_id = call[2]
                /\ t[id].period_type # call[4]

\* C10: safe_divide(n, d) is absent if and only if d is absent, d = 0 or n is
\* absent; in every other case it equals n / d.
C10_SafeDivide ==
    (call # << >> /\ call[1] = "safe_divide") =>
        LET n == call[2]
            d == call[3]
        IN  /\ result = NULL <=> (IsNull(d) \/ Val(d) = 0 \/ IsNull(n))
            /\ result # NULL =>
                 /\ Val(result)[2] # 0
                 /\ Val(result)[1] * Val(d) = Val(n) * Val(result)[2]

\* safe_divide returned a quotient that is not a whole number, from a negative
\* denominator.
C10_Witness ==
    /\ call # << >> /\ call[1] = "safe_divide"
    /\ result # NULL
    /\ Val(call[3]) < 0
    /\ Val(result)[2] > 1

(***************************************************************************)
(* Properties of the metric record                                         *)
(***************************************************************************)
\* The last call was calculate_metrics_for_period(call[2], call[3], call[4])
Calculated == call # << >> /\ call[1] = "calculate_metrics_for_period"

\* The last call was calculate_financial_metrics on the query row of call[2]
RowCalculated == call # << >> /\ call[1] = "calculate_financial_metrics"

CallIncome == get_closest_income_statement(call[2], call[3], call[4])

CallBalance == get_closest_balance_sheet(call[2], call[3], call[4])

CallPrice == get_closest_price_data(call[2], call[3])

\* A column of a resolved statement, absent when there is no statement
IncomeField(f) == IF IsNull(CallIncome) THEN NULL ELSE Val(CallIncome)[f]

BalanceField(f) == IF IsNull(CallBalance) THEN NULL ELSE Val(CallBalance)[f]

ClosePrice == IF IsNull(CallPrice) THEN NULL ELSE Val(CallPrice).close_price

GrowthFields == {"revenue_growth_yoy", "earnings_growth_yoy"}

\* C11: year-over-year growth of the income statement at chronological
\* position i of a series compares record i with record i-4 (quarterly) or
\* i-1 (annual) whatever the dates are, and both growth fields are absent
\* when the series has fewer earlier records than that.
C11_GrowthComparesByPosition ==
    (Calculated /\ ~IsNull(result)) =>
        \A id \in DOMAIN income_statements :
            LET r == income_statements[id]
                partner == LagRow(id, LagOffset(r.period_type))
            IN  (/\ r.company_id = call[2]
                 /\ r.period_ending = call[3]
                 /\ r.period_type = call[4]
                 /\ ~YoyRaises(Some(r), partner))
                => \A f \in GrowthFields :
                       Get(Val(result), f) = Get(yoy_growth_of(Some(r), partner), f)

\* growth = (current - previous) / |previous| at the given scale, present
\* whenever both values are present and the previous one is not 0
GrowthHolds(metrics, field, current, previous, scale) ==
    (~IsNull(current) /\ ~IsNull(previous) /\ Val(previous) # 0) =>
        /\ ~IsNull(metrics)
        /\ Get(Val(metrics), field)
               = Some(Quotient((Val(current) - Val(previous)) * scale, Abs(Val(previous))))

\* C12: given a current and a comparison income statement, revenue growth
\* and earnings growth are each present whenever the current and the
\* previous value are present and the previous value is not 0, and equal
\* (current - previous) / |previous| up to the scale of the writer (100 for
\* the calculator, 1 for the populator).
C12_GrowthUsesAbsoluteBase ==
    /\ Calculated =>
         LET prev == prev_income_of(call[2], call[3], call[4])
         IN  (~IsNull(CallIncome) /\ ~IsNull(prev)) =>
               /\ GrowthHolds(result, "revenue_growth_yoy",
                              Val(CallIncome).total_revenue, Val(prev).total_revenue, 100)
               /\ GrowthHolds(result, "earnings_growth_yoy",
                              Val(CallIncome).net_income, Val(prev).net_income, 100)
    /\ RowCalculated =>
         LET row == QueryRow(call[2])
         IN  (~IsNull(LagRow(call[2], LagOffset(income_statements[call[2]].period_type))))
             => /\ GrowthHolds(result, "revenue_growth_yoy",
                               row.total_revenue, row.prev_year_revenue, 1)
                /\ GrowthHolds(result, "earnings_growth_yoy",
                               row.net_income, row.prev_year_earnings, 1)

\* C13: in the record computed by calculate_metrics_for_period, trailing_pe
\* is present and equal to price / diluted_eps exactly when a close price at
\* or before the date is present and the resolved income statement's
\* diluted_eps is present and > 0.
C13_TrailingPeNeedsPositiveEps ==
    (Calculated /\ ~IsNull(result)) =>
        Get(Val(result), "trailing_pe")
            = IF /\ ~IsNull(ClosePrice)
                 /\ ~IsNull(IncomeField("diluted_eps"))
                 /\ Val(IncomeField("diluted_eps")) > 0
              THEN safe_divide(ClosePrice, IncomeField("diluted_eps"))
              ELSE NULL

\* The five profitability ratios of a record against safe_divide of the
\* numerators and denominators given
ProfitabilityHolds(metrics, revenue, gross, operating, net, assets, equity) ==
    /\ Get(metrics, "gross_margin") = safe_divide(gross, revenue)
    /\ Get(metrics, "operating_margin") = safe_divide(operating, revenue)
    /\ Get(metrics, "profit_margin") = safe_divide(net, revenue)
    /\ Get(metrics, "return_on_assets") = safe_divide(net, assets)
    /\ Get(metrics, "return_on_equity") = safe_divide(net, equity)

\* C14: in the record computed for a period, gross_margin, operating_margin
\* and profit_margin are safe_divide of gross_profit, operating_income and
\* net_income by total_revenue, return_on_assets is safe_divide(net_income,
\* total_assets) and return_on_equity is safe_divide(net_income,
\* stockholders_equity): present exactly when the numerator is present and
\* the denominator is present and non-zero.
C14_ProfitabilityIsSafeDivide ==
    /\ (Calculated /\ ~IsNull(result)) =>
         ProfitabilityHolds(Val(result),
             IncomeField("total_revenue"), IncomeField("gross_profit"),
             IncomeField("operating_income"), IncomeField("net_income"),
             BalanceField("total_assets"), BalanceField("stockholders_equity"))
    /\ RowCalculated =>
         LET row == QueryRow(call[2])
         IN  ProfitabilityHolds(Val(result),
                 row.total_revenue, row.gross_profit, row.operating_income,
                 row.net_income, row.total_assets, row.stockholders_equity)

\* price / book_value_per_share of a record or sink row, from its own
\* current_price and book_value_per_share
PriceToBookOf(price, book_value) ==
    IF IsNull(price) \/ IsNull(book_value) \/ Val(book_value)[1] = 0 THEN NULL
    ELSE Some(Quotient(Val(price)[1] * Val(book_value)[2],
                       Val(price)[2] * Val(book_value)[1]))

\* C15: in the metric record computed and stored for a period, price_to_book
\* equals price / book_value_per_share whenever the price is present and
\* book_value_per_share is present and non-zero, and is absent otherwise.
C15_PriceToBook ==
    /\ (Calculated /\ ~IsNull(result)) =>
         Get(Val(result), "price_to_book")
             = PriceToBookOf(Get(Val(result), "current_price"),
                             Get(Val(result), "book_value_per_share"))
    /\ \A key \in DOMAIN historical_company_metrics :
         LET row == historical_company_metrics[key].values
         IN  row["price_to_book"]
                 = PriceToBookOf(row["current_price"], row["book_value_per_share"])

\* C16: in every metric record produced by calculate_metrics_for_period,
\* market_cap is absent if and only if the price or the share count is
\* absent, and when market_cap, current_price and shares_outstanding are all
\* present, market_cap = current_price * shares_outstanding.
C16_MarketCapIsPriceTimesShares ==
    (Calculated /\ ~IsNull(result)) =>
        LET market_cap == Get(Val(result), "market_cap")
            price == Get(Val(result), "current_price")
            shares == Get(Val(result), "shares_outstanding")
        IN  /\ IsNull(market_cap) <=> (IsNull(price) \/ IsNull(shares))
            /\ (~IsNull(market_cap) /\ ~IsNull(price) /\ ~IsNull(shares)) =>
                   Val(market_cap)
                       = Quotient(Val(price)[1] * Val(shares)[1],
                                  Val(price)[2] * Val(shares)[2])

\* The company id is a row of companies
Known(company_id) == \E i \in DOMAIN companies : companies[i] = company_id

\* A ratio of the record is absent only when its numerator is absent or its
\* denominator is absent or zero
AbsentOnlyWithoutInputs(metrics, field, numerator, denominator) ==
    IsNull(Get(metrics, field)) =>
        (IsNull(numerator) \/ IsNull(denominator) \/ Val(denominator) = 0)

\* C17: for a known company with at least one input record,
\* calculate_metrics_for_period returns a record, and a ratio of the record
\* is absent only when one of its own inputs is absent or its denominator
\* is zero.
C17_AbsenceStaysLocal ==
    (Calculated /\ Known(call[2]) /\ ~NoInputData(call[2], call[3], call[4])) =>
        /\ ~IsNull(result)
        /\ AbsentOnlyWithoutInputs(Val(result), "gross_margin",
               IncomeField("gross_profit"), IncomeField("total_revenue"))
        /\ AbsentOnlyWithoutInputs(Val(result), "operating_margin",
               IncomeField("operating_income"), IncomeField("total_revenue"))
        /\ AbsentOnlyWithoutInputs(Val(result), "profit_margin",
               IncomeField("net_income"), IncomeField("total_revenue"))
        /\ AbsentOnlyWithoutInputs(Val(result), "debt_to_equity",
               BalanceField("total_debt"), BalanceField("stockholders_equity"))
        /\ AbsentOnlyWithoutInputs(Val(result), "current_ratio",
               BalanceField("current_assets"), BalanceField("current_liabilities"))

\* What the caller of calculate_metrics_for_period can tell from its return
\* value: the method has no other way out (line 136 catches every exception)
CalculationOutcome(returned) == IF IsNull(returned) THEN "none" ELSE "record"

\* C18: calculate_metrics_for_period reports an error outcome if and only
\* if the company_id is unknown; a known company with missing data gives a
\* record and no error.
C18_UnknownCompanyIsAnError ==
    Calculated =>
        /\ ~Known(call[2]) => CalculationOutcome(result) = "error"
        /\ Known(call[2]) => CalculationOutcome(result) = "record"

(***************************************************************************)
(* Properties of the sink and of the batch                                 *)
(***************************************************************************)
\* The last call was an upsert of call[3] under the key call[2]
Upserted ==
    /\ call # << >>
    /\ call[1] \in {"store_historical_metrics", "insert_historical_metrics"}

\* C19: after any sequence of metric upserts by store_historical_metrics and
\* insert_historical_metrics, the sink holds one record for the key and
\* every metric field of it equals the value carried by the most recent
\* upsert for the key: a field absent in the latest upsert is absent in the
\* stored record.
C19_LastWriteWins ==
    Upserted =>
        /\ call[2] \in DOMAIN historical_company_metrics
        /\ \A c \in SinkColumns :
               historical_company_metrics[call[2]].values[c] = Get(call[3], c)

\* The company ids of the calls the batch loop has made, in order
AttemptedIds == [i \in DOMAIN attempted |-> attempted[i][1]]

\* The rows of a sink that belong to the given companies
RowsOf(sink, ids) == [key \in {k \in DOMAIN sink : k[1] \in ids} |-> sink[key]]

\* The companies the loop has finished with
EarlierCompanies == {companies[i] : i \in 1..batch_idx}

\* The loop has called the populate method once for each of the first
\* batch_idx companies of the query, in the order of the query
AttemptedInOrder ==
    /\ batch_idx <= Len(companies)
    /\ AttemptedIds = SubSeq(companies, 1, batch_idx)
    /\ batch_pc = "done" => batch_idx = Len(companies)

\* A step of the batch leaves every stored row of the earlier companies as
\* it was, in the transaction and in the committed store
EarlierWorkKept ==
    /\ RowsOf(historical_company_metrics', EarlierCompanies)
           = RowsOf(historical_company_metrics, EarlierCompanies)
    /\ RowsOf(sink_committed', EarlierCompanies) = RowsOf(sink_committed, EarlierCompanies)

\* C20: in populate_all_historical_metrics a failure while processing one
\* company never prevents a later company from being processed: every
\* company of the company query is attempted exactly once, in order, the
\* work committed for earlier companies is kept, and once the loop has
\* started the batch reaches its end whatever subset of companies fails.
C20_BatchIsolatesFailures ==
    /\ []AttemptedInOrder
    /\ [][EarlierWorkKept]_vars
    /\ (batch_pc = "loop") ~> (batch_pc = "done")

\* The first company failed, the second was still processed and its metrics
\* are committed, and the batch reached its end
C20_Witness ==
    /\ batch_pc = "done"
    /\ Len(attempted) = 2
    /\ attempted[1][2] = "raised"
    /\ attempted[2][2] = "committed"
    /\ \E key \in DOMAIN sink_committed : key[1] = attempted[2][1]

(***************************************************************************)
(* Properties of the store under ingestion and reconciliation              *)
(***************************************************************************)
\* C21: in every state of the store, each balance record's data_quality_score
\* and quality_flags are those of the decision table applied to the record's
\* current total_assets, total_liabilities and stockholders_equity, after any
\* sequence of ingestions and reconciliation passes.
C21_FlagsFollowCurrentFields ==
    pc = "idle" =>
        \A id \in DOMAIN balance_sheets :
            LET r == balance_sheets[id]
                i == FirstMatchingRow(r)
            IN  /\ r.data_quality_score = TableScore[i]
                /\ r.quality_flags = <<TableFlag[i]>>

\* total_assets is present and below zero
AssetsBelowZero(r) == r.total_assets # NULL /\ r.total_assets[1] < 0

RecordsAsOf(company_id, target_date, period_type) ==
    {calculate_metrics_for_period(company_id, target_date, period_type, latest) :
        latest \in LatestBalanceSheets(company_id, target_date)}

\* C23: the metric record computed for a company and a target date depends
\* only on data dated at or before the target date: a price row or a
\* share-count refresh dated after the target date leaves the computed record
\* as it was.
C23_NoLookAhead ==
    [][\A company_id \in Companies, target_date \in PeriodDates, period_type \in PeriodTypes :
          (/\ call' # call
           /\ call'[1] \in {"store_company_metrics", "store_price_history"}
           /\ call'[2] = company_id
           /\ call'[3] > target_date)
          => RecordsAsOf(company_id, target_date, period_type)'
               = RecordsAsOf(company_id, target_date, period_type)]_vars

\* current_assets - current_liabilities of a record that holds both
DerivedWorkingCapital(r) == r.current_assets[1] - r.current_liabilities[1]

\* short_term_debt + long_term_debt, an absent component counted as 0
DerivedTotalDebt(r) ==
    (IF r.short_term_debt = NULL THEN 0 ELSE r.short_term_debt[1])
        + (IF r.long_term_debt = NULL THEN 0 ELSE r.long_term_debt[1])

HasWorkingCapitalInputs(r) == r.current_assets # NULL /\ r.current_liabilities # NULL

HasTotalDebtInputs(r) == r.short_term_debt # NULL \/ r.long_term_debt # NULL

\* C24: after fix_missing_calculated_fields every record with current_assets
\* and current_liabilities present has working_capital within 100,000 of
\* their difference, every record with short_term_debt or long_term_debt
\* present has total_debt within 100,000 of their sum (an absent component
\* counted as 0), a stored value already within 100,000 is left unchanged,
\* and neither field is written when its components are absent.
C24_DerivedFieldsWithinTolerance ==
    [][pc = "fix_calculated" =>
          \A id \in DOMAIN balance_sheets :
              LET old == balance_sheets[id]
                  new == balance_sheets'[id]
              IN  /\ HasWorkingCapitalInputs(new) =>
                        /\ new.working_capital # NULL
                        /\ Abs(new.working_capital[1] - DerivedWorkingCapital(new)) <= 100000
                  /\ HasTotalDebtInputs(new) =>
                        /\ new.total_debt # NULL
                        /\ Abs(new.total_debt[1] - DerivedTotalDebt(new)) <= 100000
                  /\ (/\ HasWorkingCapitalInputs(old)
                      /\ old.working_capital # NULL
                      /\ Abs(old.working_capital[1] - DerivedWorkingCapital(old)) <= 100000)
                        => new.working_capital = old.working_capital
                  /\ (/\ HasTotalDebtInputs(old)
                      /\ old.total_debt # NULL
                      /\ Abs(old.total_debt[1] - DerivedTotalDebt(old)) <= 100000)
                        => new.total_debt = old.total_debt
                  /\ ~HasWorkingCapitalInputs(old) => new.working_capital = old.working_capital
                  /\ ~HasTotalDebtInputs(old) => new.total_debt = old.total_debt]_vars

\* The step has just run: it rewrote a field of one record and left on
\* another a stored working_capital or total_debt that is off by exactly
\* 100,000.
C24_Witness ==
    /\ pc = "validate"
    /\ fixed_calculations >= 2
    /\ \E id \in DOMAIN balance_sheets :
         LET r == balance_sheets[id]
         IN  \/ /\ HasWorkingCapitalInputs(r) /\ r.working_capital # NULL
                /\ Abs(r.working_capital[1] - DerivedWorkingCapital(r)) = 100000
             \/ /\ HasTotalDebtInputs(r) /\ r.total_debt # NULL
                /\ Abs(r.total_debt[1] - DerivedTotalDebt(r)) = 100000

(***************************************************************************)
(* The frame of a reconciliation pass                                      *)
(***************************************************************************)
\* The columns of a balance record no step may change: its identity, its
\* total_assets and every column outside the pass's list of writable ones
FrameOf(r) ==
    [id |-> r.id,
     company_id |-> r.company_id, period_ending |-> r.period_ending,
     period_type |-> r.period_type,
     total_assets |-> r.total_assets,
     current_assets |-> r.current_assets, current_liabilities |-> r.current_liabilities,
     short_term_debt |-> r.short_term_debt, long_term_debt |-> r.long_term_debt,
     minority_interest |-> r.minority_interest, common_stock |-> r.common_stock]

\* C25: no step of a reconciliation pass changes company_id, period_ending,
\* period_type or total_assets of a balance record that survives it; the only
\* columns a step changes are total_liabilities, stockholders_equity,
\* working_capital, total_debt, common_stock_equity, data_quality_score,
\* quality_flags and updated_at.
C25_PassKeepsIdentityAndAssets ==
    [][pc # "idle" =>
          /\ DOMAIN balance_sheets' \subseteq DOMAIN committed[1]
          /\ \A id \in DOMAIN balance_sheets \cap DOMAIN balance_sheets' :
                FrameOf(balance_sheets'[id]) = FrameOf(balance_sheets[id])]_vars

\* Every writing step of the pass has changed something and a record that
\* survives differs from what the pass started with.
C25_Witness ==
    /\ pc = "report"
    /\ cleaned >= 1 /\ fixed_balance >= 1 /\ fixed_calculations >= 1
    /\ \E id \in DOMAIN balance_sheets : balance_sheets[id] # committed[1][id]
    /\ \A id \in DOMAIN balance_sheets :
          FrameOf(balance_sheets[id]) = FrameOf(committed[1][id])

(***************************************************************************)
(* Repair before resolve                                                   *)
(***************************************************************************)
\* The balance sheets after the deleting, resetting and repairing steps the
\* pass has still to run when it stands before `step`
AfterRemainingRepairs(t, step, now) ==
    LET cleaned_t == IF step = "clean" THEN clean_invalid_data(t, now) ELSE t
        repaired_t == IF step \in {"clean", "fix_equation"}
                      THEN fix_balance_sheet_equation(cleaned_t, now) ELSE cleaned_t
    IN  IF step \in {"clean", "fix_equation", "fix_calculated"}
        THEN fix_missing_calculated_fields(repaired_t, now) ELSE repaired_t

\* The pass still deletes the record or changes one of its amounts
StillRepaired(r) ==
    LET after == AfterRemainingRepairs(balance_sheets, pc, Now)
    IN  \/ r.id \notin DOMAIN after
        \/ [after[r.id] EXCEPT !.updated_at = 0] # [r EXCEPT !.updated_at = 0]

\* C26: while a reconciliation pass is running, the metric calculator
\* resolves no balance record that the pass has still to delete, reset or
\* repair: no metric record is computed from a balance sheet before its
\* reconciliation has completed.
C26_RepairBeforeResolve ==
    [][(/\ call' # call
        /\ call'[1] = "calculate_metrics_for_period"
        /\ pc # "idle")
       => LET resolved == get_closest_balance_sheet(call'[2], call'[3], call'[4])
          IN  resolved # NULL => ~StillRepaired(resolved[1])]_vars

(***************************************************************************)
(* The out-of-range reset runs before the directional repair               *)
(***************************************************************************)
\* The record as the running pass found it
AtStartOfPass(id) == committed[1][id]

EquityOutOfRangeAtStart(id) ==
    LET s == AtStartOfPass(id)
    IN  /\ s.total_assets # NULL /\ s.total_assets[1] > 0
        /\ s.stockholders_equity # NULL
        /\ s.stockholders_equity[1] > 2 * s.total_assets[1]

LiabilitiesOutOfRangeAtStart(id) ==
    LET s == AtStartOfPass(id)
    IN  /\ s.total_assets # NULL /\ s.total_assets[1] > 0
        /\ s.total_liabilities # NULL
        /\ s.total_liabilities[1] > 2 * s.total_assets[1]

\* The field is absent or total_assets minus the other field
AbsentOrDerived(field, assets, other) ==
    \/ field = NULL
    \/ /\ assets # NULL /\ other # NULL
       /\ field = <<assets[1] - other[1]>>

C28_PassIsAllOrNothing ==
    /\ [](pc = "idle" => <<balance_sheets, price_history>> = committed)
    /\ [][(pc = "report" /\ ReportRaises(balance_sheets, price_history)) =>
             /\ pc' = "idle" /\ outcome' = "raised"
             /\ committed' = committed /\ commits' = commits]_vars
    /\ [][committed' # committed =>
             /\ pc = "report" /\ pc' = "idle" /\ outcome' = "committed"
             /\ ~ReportRaises(balance_sheets, price_history)
             /\ committed' = <<balance_sheets, price_history>>
             /\ commits' = commits + 1]_vars

\* A pass that had reset or deleted records has raised, and the records are
\* back.
C28_Witness ==
    /\ pc = "idle" /\ outcome = "raised"
    /\ cleaned >= 1
    /\ DOMAIN balance_sheets # {}
    /\ balance_sheets = committed[1]

(***************************************************************************)
(* A pass and the records that were consistent before it                   *)
(***************************************************************************)
\* total_assets >= 0, both other core fields present, imbalance within the
\* tolerance
ConsistentRecord(r) ==
    /\ r.total_assets # NULL /\ r.total_assets[1] >= 0
    /\ r.total_liabilities # NULL /\ r.stockholders_equity # NULL
    /\ Abs(r.total_assets[1] - (r.total_liabilities[1] + r.stockholders_equity[1]))
          <= 1000000

\* C29: a full reconciliation pass never makes a consistent record less
\* complete: a record with total_assets >= 0 whose total_liabilities and
\* stockholders_equity are both present and within 1,000,000 of balancing
\* before the pass has the same total_liabilities and stockholders_equity
\* after it.
C29_ConsistentRecordsKeepCoreFields ==
    pc = "report" =>
        \A id \in DOMAIN committed[1] :
            ConsistentRecord(committed[1][id]) =>
                /\ id \in DOMAIN balance_sheets
                /\ balance_sheets[id].total_liabilities = committed[1][id].total_liabilities
                /\ balance_sheets[id].stockholders_equity = committed[1][id].stockholders_equity

(***************************************************************************)
(* The two writers of the metrics sink on the same period                  *)
(***************************************************************************)
\* The fields both calculate_metrics_for_period and
\* calculate_financial_metrics write
SharedFields ==
    {"gross_margin", "operating_margin", "profit_margin", "return_on_assets",
     "return_on_equity", "debt_to_equity", "current_ratio",
     "revenue_growth_yoy", "earnings_growth_yoy"}

\* The calculator, asked for the period of the income statement id, reads
\* the statements the populator's query row of id is made of
SameInputs(id) ==
    LET r == income_statements[id]
    IN  /\ get_closest_income_statement(r.company_id, r.period_ending, r.period_type)
              = Some(r)
        /\ get_closest_balance_sheet(r.company_id, r.period_ending, r.period_type)
              = JoinedBalanceSheet(r)
        /\ prev_income_of(r.company_id, r.period_ending, r.period_type)
              = LagRow(id, LagOffset(r.period_type))

\* C30: the two writers of the metrics sink agree: for the same income and
\* balance inputs of a period, the record of calculate_metrics_for_period
\* and the record of calculate_financial_metrics have the same presence and
\* the same value in every field both of them write.
C30_WritersAgree ==
    (RowCalculated /\ SameInputs(call[2])) =>
        LET r == income_statements[call[2]]
        IN  \A latest \in LatestBalanceSheets(r.company_id, r.period_ending) :
                LET calculated == calculate_metrics_for_period(
                                      r.company_id, r.period_ending, r.period_type, latest)
                IN  calculated # NULL =>
                        \A field \in SharedFields :
                            Get(calculated[1], field) = Get(result[1], field)

=============================================================================
